---- MODULE Spec2Model ----
(***************************************************************************)
(* Verification model of the mining CRUD backend: the Production scenario  *)
(* table with its ACTIVE-per-year rule, the Mine / Product tables with     *)
(* their services and repositories, and the enrollment table.              *)
(*                                                                         *)
(* Every table is a set of row records; a request is one atomic action     *)
(* (the web server runs one unit of work per request) except in the        *)
(* two-writer specification, where each database interaction of a writer   *)
(* is its own step.                                                        *)
(***************************************************************************)
EXTENDS Integers, Sequences, FiniteSets, TLC

VARIABLES
    productions,   \* committed rows of table productions
    presult,       \* outcome of the last Production request
    wpc,           \* two-writer run: each writer's position
    werr,          \* two-writer run: where a writer failed ("none" if not)
    mines,         \* committed rows of table mines
    products,      \* committed rows of table products
    mresult,       \* outcome of the last Mine / Product request
    enrollments,   \* committed rows of table production_partner_enrollment
    eresult,       \* outcome of the last enrollment write
    enrolled,      \* the enrollment objects of the production being serialised
    report,        \* the last to_dict output
    request,       \* the HTTP request being served
    response,      \* the response it got
    cache,         \* BaseService._cache: key -> value and time stored
    now,           \* the clock, in seconds
    cached_result, \* what the last _cache_get returned, and when
    partner_entities,   \* committed rows of table partner_entities
    partners,      \* committed rows of table partners
    page,          \* the Page the last repository list returned
    upsert_result, \* the last upsert_many_for_mine call and what it returned
    session,       \* db.session: the changes flushed or added, not committed
    database,      \* what the database holds committed
    txn,           \* the last call on the session: how it ended, commits, rollbacks
    perf           \* a method under measure_performance: its metrics and calls

vars == <<productions, presult, wpc, werr, mines, products, mresult,
          enrollments, eresult, enrolled, report, request, response,
          cache, now, cached_result, partner_entities, partners, page,
          upsert_result, session, database, txn, perf>>

prodVars == <<productions, presult>>
raceVars == <<wpc, werr>>
catalogVars == <<mines, products, mresult>>
enrollVars == <<enrollments, eresult>>
reportVars == <<enrolled, report>>
httpVars == <<request, response>>
cacheVars == <<cache, now, cached_result>>
partnerVars == <<partner_entities, partners>>
txVars == <<session, database, txn>>
libVars == <<page, upsert_result, txVars, perf>>
extVars == <<reportVars, httpVars, cacheVars, partnerVars, libVars>>
baseVars == <<prodVars, raceVars, catalogVars, enrollVars>>

(***************************************************************************)
(* Bounds of the model                                                     *)
(***************************************************************************)
MaxProd == 2

ProdIds == 1..MaxProd
Writers == {1, 2}
Years == {2024, 2025}
ScenarioNames == {"base", "alt"}

(***************************************************************************)
(* Each specification exercises one group of tables; the other groups      *)
(* stay as they are after construction: empty tables, no request made.     *)
(***************************************************************************)
PNone == [op |-> "none", id |-> 0, outcome |-> "none"]
MNone == [op |-> "none", id |-> 0, outcome |-> "none"]
ENone == [op |-> "none", id |-> 0, outcome |-> "none", detail |-> ""]

ProductionIdle ==
    /\ productions = {}
    /\ presult = PNone

RaceIdle ==
    /\ wpc = [w \in Writers |-> "idle"]
    /\ werr = [w \in Writers |-> "none"]

CatalogIdle ==
    /\ mines = {}
    /\ products = {}
    /\ mresult = MNone

EnrollIdle ==
    /\ enrollments = {}
    /\ eresult = ENone

NoSummary ==
    [partners_count |-> 0, total_planned_tonnage |-> 0,
     total_actual_vld_tonnage |-> 0, total_vld_variance |-> 0]

RNone == [kind |-> "none", items |-> <<>>, summary |-> NoSummary]

ReportIdle ==
    /\ enrolled = <<>>
    /\ report = RNone

\* no request served yet
NoRequest ==
    [method |-> "", path |-> <<>>, authorization |-> <<>>, mine_id |-> 0,
     data |-> <<>>, permanent |-> FALSE]

NoResponse ==
    [status |-> 0, handler |-> "",
     result |-> [success |-> FALSE, message |-> <<>>, errors |-> <<>>,
                 error_code |-> <<>>]]

HttpIdle ==
    /\ request = NoRequest
    /\ response = NoResponse

NoLookup == [key |-> <<>>, value |-> <<>>, at |-> 0]

CacheIdle ==
    /\ cache = <<>>
    /\ now = 0
    /\ cached_result = NoLookup

PartnerIdle ==
    /\ partner_entities = {}
    /\ partners = {}

NoPage == [items |-> <<>>, page |-> 0, per_page |-> 0, total |-> 0]

NoUpsert ==
    [mine_id |-> 0, items |-> <<>>, delete_missing |-> FALSE,
     outcome |-> "none", created |-> <<>>, updated |-> <<>>,
     deleted |-> <<>>, unchanged |-> <<>>]

NoTxn ==
    [wrapper |-> "none", by_default |-> FALSE, ends |-> "none",
     commits |-> 0, rollbacks |-> 0, committed |-> FALSE, raised |-> "none"]

TxIdle ==
    /\ session = {}
    /\ database = {}
    /\ txn = NoTxn

\* no call of the measured method yet: no metrics stored
NoPerf ==
    [metrics |-> <<>>, succeeded |-> <<>>, failed |-> <<>>,
     body |-> "none", returned |-> "none", raised |-> "none", n |-> 0]

LibIdle ==
    /\ page = NoPage
    /\ upsert_result = NoUpsert
    /\ TxIdle
    /\ perf = NoPerf

ExtIdle ==
    /\ ReportIdle
    /\ HttpIdle
    /\ CacheIdle
    /\ PartnerIdle
    /\ LibIdle

(***************************************************************************)
(* models/production.py                                                    *)
(***************************************************************************)
DRAFT == "draft"
PLANNED == "planned"
ACTIVE == "active"
COMPLETED == "completed"
ARCHIVED == "archived"

ProductionStatus == {DRAFT, PLANNED, ACTIVE, COMPLETED, ARCHIVED}

MinContractualYear == 2000
MaxContractualYear == 2100

\* CheckConstraint check_contractual_year_range
CheckContractualYearRange(row) ==
    row.contractual_year >= MinContractualYear /\ row.contractual_year <= MaxContractualYear

UqOneActivePerYear_Dropped(tbl) == TRUE

\* Index uq_one_active_per_year: unique on contractual_year where status = ACTIVE
UqOneActivePerYear(tbl) ==
    \A r1, r2 \in tbl :
        (r1.status = ACTIVE /\ r2.status = ACTIVE
            /\ r1.contractual_year = r2.contractual_year) => r1.id = r2.id

\* UniqueConstraint uq_prod_year_name_version (version keeps its default 1)
UqProdYearNameVersion(tbl) ==
    \A r1, r2 \in tbl :
        (r1.contractual_year = r2.contractual_year
            /\ r1.scenario_name = r2.scenario_name) => r1.id = r2.id

\* What the database accepts as the productions table after a flush.
ProductionConstraintsOK(tbl) ==
    /\ \A r \in tbl : CheckContractualYearRange(r)
    /\ UqOneActivePerYear(tbl)
    /\ UqProdYearNameVersion(tbl)

ProductionRow(id, year, name, status) ==
    [id |-> id, contractual_year |-> year, scenario_name |-> name, status |-> status]

\* The query of the validator: another ACTIVE row of self's contractual year.
\* selfId = 0 stands for "self.id is None" (no id filter).
OtherActiveExists(tbl, year, selfId) ==
    \E r \in tbl :
        /\ r.contractual_year = year
        /\ r.status = ACTIVE
        /\ (selfId # 0 => r.id # selfId)

\* Production._validate_single_active_per_year: TRUE when the value is accepted.
\* attached = FALSE is object_session(self) is None.
ValidateSingleActivePerYear(tbl, attached, year, selfId, value) ==
    IF value = ACTIVE
    THEN IF ~attached THEN TRUE ELSE ~OtherActiveExists(tbl, year, selfId)
    ELSE TRUE

\* The primary key the database gives a new row: max(id) + 1.
NextProdId ==
    IF productions = {} THEN 1
    ELSE (CHOOSE m \in {r.id : r \in productions} :
              \A k \in {r.id : r \in productions} : k <= m) + 1

\* Session.flush of one object: its row replaces the stored one.
FlushRow(tbl, obj) == {r \in tbl : r.id # obj.id} \cup {obj}


(***************************************************************************)
(* A create request: the constructor call (the validator runs inside the   *)
(* constructor, before the object is in any session), session.add, commit; *)
(* rollback on any exception.                                              *)
(***************************************************************************)
CreateProduction(year, name, status) ==
    /\ NextProdId \in ProdIds
    /\ LET obj == ProductionRow(NextProdId, year, name, status)
           accepted == ValidateSingleActivePerYear(productions, FALSE, year, 0, status)
           tbl == FlushRow(productions, obj)
           res(o) == [op |-> "create", id |-> obj.id, outcome |-> o]
       IN  IF ~accepted
           THEN /\ presult' = res("ValueError")
                /\ UNCHANGED productions
           ELSE IF ~ProductionConstraintsOK(tbl)
           THEN /\ presult' = res("IntegrityError")
                /\ UNCHANGED productions
           ELSE /\ presult' = res("ok")
                /\ productions' = tbl
    /\ UNCHANGED <<raceVars, catalogVars, enrollVars, extVars>>

(***************************************************************************)
(* An update request on a loaded row: setattr for each change in payload   *)
(* order, then commit.  Setting status runs the validator, whose query     *)
(* autoflushes the attribute changes made so far.                          *)
(***************************************************************************)
Change(f, v) == [f |-> f, v |-> v]

ChangeLists ==
    LET S == {Change("status", s) : s \in ProductionStatus}
        Y == {Change("contractual_year", y) : y \in Years}
    IN  {<<c>> : c \in S \cup Y}
        \cup {<<Change("status", ACTIVE), b>> : b \in Y}
        \cup {<<b, Change("status", ACTIVE)>> : b \in Y}

\* State of the unit of work: the transaction's view of the table, the
\* loaded object, and the exception raised so far.
RECURSIVE ApplyChanges(_, _, _)
ApplyChanges(tx, obj, changes) ==
    IF changes = <<>> THEN [tx |-> tx, obj |-> obj, err |-> "none"]
    ELSE LET c == Head(changes)
         IN  IF c.f = "contractual_year"
             THEN ApplyChanges(tx, [obj EXCEPT !.contractual_year = c.v], Tail(changes))
             ELSE
               \* setattr(self, "status", v): the validator's query autoflushes first
               LET needsQuery == c.v = ACTIVE
                   flushed == IF needsQuery THEN FlushRow(tx, obj) ELSE tx
               IN  IF needsQuery /\ ~ProductionConstraintsOK(flushed)
                   THEN [tx |-> tx, obj |-> obj, err |-> "IntegrityError"]
                   ELSE IF ~ValidateSingleActivePerYear(flushed, TRUE,
                                obj.contractual_year, obj.id, c.v)
                   THEN [tx |-> tx, obj |-> obj, err |-> "ValueError"]
                   ELSE ApplyChanges(flushed, [obj EXCEPT !.status = c.v], Tail(changes))

UpdateProduction(id, changes) ==
    /\ \E row \in productions :
        /\ row.id = id
        /\ LET w == ApplyChanges(productions, row, changes)
               tbl == FlushRow(w.tx, w.obj)
               res(o) == [op |-> "update", id |-> id, outcome |-> o]
           IN  IF w.err # "none"
               THEN /\ presult' = res(w.err)
                    /\ UNCHANGED productions
               ELSE IF ~ProductionConstraintsOK(tbl)
               THEN /\ presult' = res("IntegrityError")
                    /\ UNCHANGED productions
               ELSE /\ presult' = res("ok")
                    /\ productions' = tbl
    /\ UNCHANGED <<raceVars, catalogVars, enrollVars, extVars>>

\* A delete request: session.delete(row), commit.
DeleteProduction(id) ==
    /\ \E row \in productions :
        /\ row.id = id
        /\ productions' = productions \ {row}
        /\ presult' = [op |-> "delete", id |-> id, outcome |-> "ok"]
    /\ UNCHANGED <<raceVars, catalogVars, enrollVars, extVars>>

InitProd ==
    /\ ProductionIdle
    /\ RaceIdle
    /\ ExtIdle
    /\ CatalogIdle
    /\ EnrollIdle

NextProd ==
    \/ \E y \in Years \cup {MinContractualYear - 1}, n \in ScenarioNames, s \in ProductionStatus :
           CreateProduction(y, n, s)
    \/ \E id \in ProdIds, ch \in ChangeLists : UpdateProduction(id, ch)
    \/ \E id \in ProdIds : DeleteProduction(id)

Spec == InitProd /\ [][NextProd]_vars

(***************************************************************************)
(* Two concurrent writers (specification SpecRace).  Writer w activates    *)
(* row w; both rows belong to the same contractual year and no row of the  *)
(* year is ACTIVE at the start.  Each database interaction is one step:    *)
(*   lock_for_update  ->  setattr status (validator query)  ->  flush      *)
(*   ->  commit, or rollback after an exception.                           *)
(***************************************************************************)
Target(w) == w

Other(w) == CHOOSE v \in Writers : v # w

TargetRow(w) == CHOOSE r \in productions : r.id = Target(w)

\* The row writer w writes: its target with status = ACTIVE.
PendingRow(w) == [TargetRow(w) EXCEPT !.status = ACTIVE]

\* A writer holds the row lock of its target from SELECT ... FOR UPDATE to
\* the end of its transaction.
InTransaction(w) == wpc[w] \in {"locked", "set", "flushed", "failed"}

RowLocked(id) == \E v \in Writers : InTransaction(v) /\ Target(v) = id

VisibleTo_Dirty(w) ==
    IF wpc[Other(w)] = "flushed"
    THEN FlushRow(productions, PendingRow(Other(w)))
    ELSE productions

\* The rows a query of writer w's session reads: committed rows (the
\* writer itself has written nothing before its check).
VisibleTo(w) == productions

\* BaseRepository.lock_for_update: SELECT ... WHERE id = :id FOR UPDATE
LockForUpdate(w) ==
    /\ wpc[w] = "idle"
    /\ ~RowLocked(Target(w))
    /\ wpc' = [wpc EXCEPT ![w] = "locked"]
    /\ UNCHANGED <<werr, prodVars, catalogVars, enrollVars, extVars>>

\* row.status = ACTIVE: the validator queries, then raises or accepts.
SetStatusActive(w) ==
    /\ wpc[w] = "locked"
    /\ IF ValidateSingleActivePerYear(VisibleTo(w), TRUE,
              TargetRow(w).contractual_year, Target(w), ACTIVE)
       THEN /\ wpc' = [wpc EXCEPT ![w] = "set"]
            /\ UNCHANGED werr
       ELSE /\ wpc' = [wpc EXCEPT ![w] = "failed"]
            /\ werr' = [werr EXCEPT ![w] = "check"]
    /\ UNCHANGED <<prodVars, catalogVars, enrollVars, extVars>>

\* Another transaction holds an uncommitted index entry for the same year.
IndexEntryPending(w) ==
    /\ wpc[Other(w)] = "flushed"
    /\ ~UqOneActivePerYear({PendingRow(w), PendingRow(Other(w))})

\* session.flush: the UPDATE reaches the database, which checks the unique
\* index against the committed rows; it waits while another transaction's
\* conflicting entry is undecided.
FlushWriter(w) ==
    /\ wpc[w] = "set"
    /\ ~IndexEntryPending(w)
    /\ IF ProductionConstraintsOK(FlushRow(productions, PendingRow(w)))
       THEN /\ wpc' = [wpc EXCEPT ![w] = "flushed"]
            /\ UNCHANGED werr
       ELSE /\ wpc' = [wpc EXCEPT ![w] = "failed"]
            /\ werr' = [werr EXCEPT ![w] = "flush"]
    /\ UNCHANGED <<prodVars, catalogVars, enrollVars, extVars>>

\* The wait ends with the database's lock timeout instead.
FlushTimeout(w) ==
    /\ wpc[w] = "set"
    /\ IndexEntryPending(w)
    /\ wpc' = [wpc EXCEPT ![w] = "failed"]
    /\ werr' = [werr EXCEPT ![w] = "flush"]
    /\ UNCHANGED <<prodVars, catalogVars, enrollVars, extVars>>

\* session.commit
CommitWriter(w) ==
    /\ wpc[w] = "flushed"
    /\ productions' = FlushRow(productions, PendingRow(w))
    /\ wpc' = [wpc EXCEPT ![w] = "committed"]
    /\ UNCHANGED <<werr, presult, catalogVars, enrollVars, extVars>>

\* session.rollback after the exception
RollbackWriter(w) ==
    /\ wpc[w] = "failed"
    /\ wpc' = [wpc EXCEPT ![w] = "rolledback"]
    /\ UNCHANGED <<werr, prodVars, catalogVars, enrollVars, extVars>>

InitRace ==
    /\ \E y \in Years : \E s1, s2 \in ProductionStatus \ {ACTIVE} :
          productions = {ProductionRow(1, y, "base", s1),
                         ProductionRow(2, y, "alt", s2)}
    /\ presult = PNone
    /\ RaceIdle
    /\ ExtIdle
    /\ CatalogIdle
    /\ EnrollIdle

NextRace ==
    \E w \in Writers :
        \/ LockForUpdate(w)
        \/ SetStatusActive(w)
        \/ FlushWriter(w)
        \/ FlushTimeout(w)
        \/ CommitWriter(w)
        \/ RollbackWriter(w)

SpecRace == InitRace /\ [][NextRace]_vars

(***************************************************************************)
(* Claims on the Production requests (specification Spec)                  *)
(***************************************************************************)
OneActivePerYear ==
    \A r1, r2 \in productions :
        (r1.status = ACTIVE /\ r2.status = ACTIVE
            /\ r1.contractual_year = r2.contractual_year) => r1 = r2

Activate == <<Change("status", ACTIVE)>>

\* The row with this id is not ACTIVE and another row of its year is.
SecondOfItsYear(id) ==
    \E row \in productions :
        /\ row.id = id
        /\ row.status # ACTIVE
        /\ OtherActiveExists(productions, row.contractual_year, id)

ActivationOfSecondRejected ==
    \A id \in ProdIds :
        (SecondOfItsYear(id) /\ UpdateProduction(id, Activate))
            => /\ presult'.outcome = "ValueError"
               /\ productions' = productions

C2_CreationRejectedByValidator ==
    [][\A y \in Years, n \in ScenarioNames :
          (OtherActiveExists(productions, y, 0) /\ CreateProduction(y, n, ACTIVE))
              => presult'.outcome = "ValueError"]_vars

AllowedTransition(from, to) ==
    \/ to = ARCHIVED /\ from # ARCHIVED
    \/ from = DRAFT /\ to = PLANNED
    \/ from = PLANNED /\ to = ACTIVE
    \/ from = ACTIVE /\ to = COMPLETED

\* C5: a row's status only changes one step forward along
\* DRAFT -> PLANNED -> ACTIVE -> COMPLETED or to ARCHIVED, and never leaves
\* ARCHIVED.
C5_StatusFollowsLifecycle ==
    [][\A r \in productions : \A q \in productions' :
          (r.id = q.id /\ r.status # q.status)
              => AllowedTransition(r.status, q.status)]_vars

(***************************************************************************)
(* Claims on the two writers (specification SpecRace)                      *)
(***************************************************************************)
Failed(w) == wpc[w] \in {"failed", "rolledback"}

RaceDone == \A w \in Writers : wpc[w] \in {"committed", "rolledback"}

\* C3 (as stated): at most one transaction commits, the other fails at
\* flush/commit and is rolled back, and no committed state has two ACTIVE
\* rows of one year.
C3_LoserFailsAtFlush ==
    /\ OneActivePerYear
    /\ ~(\A w \in Writers : wpc[w] = "committed")
    /\ \A w \in Writers : Failed(w) => werr[w] = "flush"
    /\ RaceDone => \E w \in Writers : wpc[w] = "rolledback"

\* C3 (amended): at most one transaction commits; the other fails, at
\* flush/commit when it passed the application check and at the application
\* check when the first had committed before that check ran, and is rolled
\* back with its row unchanged; no committed state has two ACTIVE rows of
\* one year.
C3_AtMostOneCommits ==
    /\ OneActivePerYear
    /\ ~(\A w \in Writers : wpc[w] = "committed")
    /\ \A w \in Writers :
          Failed(w) => \/ werr[w] = "flush"
                       \/ werr[w] = "check" /\ wpc[Other(w)] = "committed"
    /\ \A w \in Writers :
          wpc[w] = "rolledback" => TargetRow(w).status # ACTIVE
    /\ RaceDone => \E w \in Writers :
                      wpc[w] = "committed" /\ wpc[Other(w)] = "rolledback"

\* C3 witness: both writers passed the check, one committed and the other
\* failed at flush and was rolled back.
C3_Witness ==
    \E w \in Writers :
        /\ wpc[w] = "committed"
        /\ wpc[Other(w)] = "rolledback"
        /\ werr[Other(w)] = "flush"

BothPassedCheck == \A w \in Writers : wpc[w] = "set"

\* The check of a writer passes exactly when no other ACTIVE row of the
\* year is committed, whatever the other writer holds or has flushed.
CheckReadsCommittedOnly ==
    \A w \in Writers :
        (wpc[w] = "locked" /\ wpc'[w] # "locked")
            => (wpc'[w] = "set"
                  <=> ~OtherActiveExists(productions,
                          TargetRow(w).contractual_year, Target(w)))

\* C4: the application check is race-prone: its outcome depends on the
\* committed rows alone, so two writers that hold the row locks of their
\* own rows can both pass it before either commits, and the writes they
\* then hold break one-ACTIVE-per-year unless the index refuses one.
C4_CheckIsRaceProne ==
    /\ [](BothPassedCheck
            => ~UqOneActivePerYear({PendingRow(w) : w \in Writers}))
    /\ [][CheckReadsCommittedOnly]_vars

\* C4 witness: both writers hold their row locks and have passed the
\* check, and nothing is committed yet.
C4_Witness ==
    /\ BothPassedCheck
    /\ \A w \in Writers : RowLocked(Target(w))
    /\ \A r \in productions : r.status # ACTIVE

(***************************************************************************)
(* models/product.py: tables mines and products.  NoText stands for a      *)
(* string that is None or blank; an id of 0 stands for an id that is None. *)
(***************************************************************************)
MaxMines == 2
MaxProducts == 2

MineIds == 1..MaxMines
ProductIds == 1..MaxProducts
NoText == ""
MineNames == {"north", "south"}
ProductNames == {"ore", "fines"}
ProductCodes == {"ore"}
RawProductNames == ProductNames \cup {" ore ", NoText}

sanitize(value) ==
    CASE value = " ore " -> "ore"
      [] value = " north " -> "north"
      [] OTHER -> value

MineRow(id, name, is_deleted) ==
    [id |-> id, name |-> name, is_deleted |-> is_deleted]

ProductRow(id, mine_id, name, code, is_deleted) ==
    [id |-> id, mine_id |-> mine_id, name |-> name, code |-> code,
     is_deleted |-> is_deleted]

UqMineName(tbl) ==
    \A a, b \in tbl : a.name = b.name => a = b

UqProductMineName_Dropped(tbl) == TRUE

UqProductMineName(tbl) ==
    \A a, b \in tbl : (a.mine_id = b.mine_id /\ a.name = b.name) => a = b

\* unique=True on a nullable column: NULL codes never collide
UqProductCode(tbl) ==
    \A a, b \in tbl : (a.code # NoText /\ a.code = b.code) => a = b

ProductNameNotNull(tbl) ==
    \A a \in tbl : a.name # NoText

ProductTableOK(tbl) ==
    /\ \A a, b \in tbl : a.id = b.id => a = b
    /\ ProductNameNotNull(tbl)
    /\ UqProductMineName(tbl)
    /\ UqProductCode(tbl)

MineTableOK(tbl) ==
    /\ \A a, b \in tbl : a.id = b.id => a = b
    /\ UqMineName(tbl)

NextRowId(tbl) ==
    IF tbl = {} THEN 1
    ELSE (CHOOSE i \in {r.id : r \in tbl} : \A r \in tbl : r.id <= i) + 1

(***************************************************************************)
(* Product repository (the class the service's calls match) and            *)
(* ProductService                                                          *)
(***************************************************************************)
exists_by_name(tbl, name, mine_id, exclude_id) ==
    \E p \in tbl :
        /\ p.name = name
        /\ (mine_id # 0 => p.mine_id = mine_id)
        /\ (exclude_id # 0 => p.id # exclude_id)
        /\ ~p.is_deleted

\* TRUE when the rule reports no violation
validate_name_uniqueness(tbl, name, mine_id, exclude_id) ==
    IF name = NoText \/ mine_id = 0 THEN TRUE
    ELSE ~exists_by_name(tbl, name, mine_id, exclude_id)

validate_code_uniqueness(tbl, code, exclude_id) ==
    IF code = NoText THEN TRUE
    ELSE ~exists_by_name(tbl, code, 0, exclude_id)

\* data.name = NoText with has_name means a blank string was sent
validate_product_data(tbl, data, is_update) ==
    /\ is_update \/ (data.name # NoText /\ data.mine_id # 0)
    /\ ~(data.has_name /\ data.name = NoText)
    /\ validate_name_uniqueness(tbl, data.name, data.mine_id,
                                IF is_update THEN data.id ELSE 0)
    /\ validate_code_uniqueness(tbl, data.code,
                                IF is_update THEN data.id ELSE 0)

ProductData(id, name, has_name, mine_id, code, has_code) ==
    [id |-> id, name |-> name, has_name |-> has_name, mine_id |-> mine_id,
     code |-> code, has_code |-> has_code]

\* create_product on the rows visible to the session: the outcome and the
\* row it would add
create_product(tbl, name, mine_id, code) ==
    LET clean == ProductData(0, sanitize(name), TRUE, mine_id,
                             sanitize(code), TRUE)
        row == ProductRow(NextRowId(tbl), mine_id, clean.name, clean.code,
                          FALSE)
    IN  IF ~validate_product_data(tbl, clean, FALSE)
        THEN [outcome |-> "validation", row |-> row]
        ELSE IF ~ProductTableOK(tbl \cup {row})
        THEN [outcome |-> "duplicate", row |-> row]
        ELSE [outcome |-> "ok", row |-> row]

MResult(op, id, outcome) == [op |-> op, id |-> id, outcome |-> outcome]

CreateProduct(name, mine_id, code) ==
    LET r == create_product(products, name, mine_id, code)
    IN  /\ r.outcome = "ok" => r.row.id \in ProductIds
        /\ IF r.outcome = "ok"
           THEN /\ products' = products \cup {r.row}
                /\ mresult' = MResult("create_product", r.row.id, "ok")
           ELSE /\ UNCHANGED products
                /\ mresult' = MResult("create_product", 0, r.outcome)
        /\ UNCHANGED <<mines, prodVars, raceVars, enrollVars, extVars>>

ExistingMineIds == {m.id : m \in mines}

\* the payloads of update requests: one field, or name and mine together
UpdatePayloads(id) ==
    {ProductData(id, n, TRUE, 0, NoText, FALSE) : n \in RawProductNames}
    \cup {ProductData(id, NoText, FALSE, 0, c, TRUE) :
              c \in ProductCodes \cup {NoText}}
    \cup {ProductData(id, NoText, FALSE, m, NoText, FALSE) :
              m \in ExistingMineIds}
    \cup {ProductData(id, n, TRUE, m, NoText, FALSE) :
              n \in ProductNames, m \in ExistingMineIds}

\* update_fields: setattr for every key of the payload
update_fields(entity, data) ==
    [entity EXCEPT
        !.name = IF data.has_name THEN data.name ELSE @,
        !.mine_id = IF data.mine_id # 0 THEN data.mine_id ELSE @,
        !.code = IF data.has_code THEN data.code ELSE @]

UpdateProduct(id, data) ==
    LET clean == [data EXCEPT !.name = sanitize(@), !.code = sanitize(@)]
    IN  /\ IF ~validate_product_data(products, clean, TRUE)
           THEN /\ UNCHANGED products
                /\ mresult' = MResult("update_product", id, "validation")
           ELSE IF ~(\E p \in products : p.id = id)
           THEN /\ UNCHANGED products
                /\ mresult' = MResult("update_product", id, "not_found")
           ELSE LET entity == CHOOSE p \in products : p.id = id
                    tbl == (products \ {entity})
                               \cup {update_fields(entity, clean)}
                IN  IF ProductTableOK(tbl)
                    THEN /\ products' = tbl
                         /\ mresult' = MResult("update_product", id, "ok")
                    ELSE /\ UNCHANGED products
                         /\ mresult' = MResult("update_product", id,
                                               "duplicate")
        /\ UNCHANGED <<mines, prodVars, raceVars, enrollVars, extVars>>

DeleteProduct(id, soft) ==
    /\ IF ~(\E p \in products : p.id = id)
       THEN /\ UNCHANGED products
            /\ mresult' = MResult("delete_product", id, "not_found")
       ELSE LET entity == CHOOSE p \in products : p.id = id
            IN  /\ products' =
                       IF soft
                       THEN (products \ {entity})
                                \cup {[entity EXCEPT !.is_deleted = TRUE]}
                       ELSE products \ {entity}
                /\ mresult' = MResult("delete_product", id, "ok")
    /\ UNCHANGED <<mines, prodVars, raceVars, enrollVars, extVars>>

RestoreProduct(id) ==
    /\ IF ~(\E p \in products : p.id = id)
       THEN /\ UNCHANGED products
            /\ mresult' = MResult("restore_product", id, "not_found")
       ELSE LET entity == CHOOSE p \in products : p.id = id
            IN  /\ products' = (products \ {entity})
                                   \cup {[entity EXCEPT !.is_deleted = FALSE]}
                /\ mresult' = MResult("restore_product", id, "ok")
    /\ UNCHANGED <<mines, prodVars, raceVars, enrollVars, extVars>>

(***************************************************************************)
(* Specification SpecProduct: product requests against existing mines      *)
(***************************************************************************)
InitProduct ==
    /\ ProductionIdle
    /\ RaceIdle
    /\ ExtIdle
    /\ EnrollIdle
    /\ mines = {MineRow(1, "north", FALSE), MineRow(2, "south", FALSE)}
    /\ products = {}
    /\ mresult = MNone

NextProduct ==
    \/ \E n \in RawProductNames, m \in ExistingMineIds \cup {0},
          c \in ProductCodes \cup {NoText} : CreateProduct(n, m, c)
    \/ \E id \in ProductIds : \E d \in UpdatePayloads(id) :
           UpdateProduct(id, d)
    \/ \E id \in ProductIds, soft \in BOOLEAN : DeleteProduct(id, soft)
    \/ \E id \in ProductIds : RestoreProduct(id)

SpecProduct == InitProduct /\ [][NextProduct]_vars

(***************************************************************************)
(* Mine repository and MineService (specification SpecMine)                *)
(***************************************************************************)
MaxBatch == 2

RawMineNames == MineNames \cup {" north ", NoText}

mine_exists_by_name(tbl, name, exclude_id) ==
    \E m \in tbl :
        /\ m.name = name
        /\ (exclude_id # 0 => m.id # exclude_id)
        /\ ~m.is_deleted

validate_mine_data(tbl, name) ==
    /\ name # NoText
    /\ ~mine_exists_by_name(tbl, name, 0)

\* every item has a name, and no name or code occurs twice in the batch
validate_products_data(batch) ==
    /\ \A i \in DOMAIN batch : batch[i].name # NoText
    /\ \A i, j \in DOMAIN batch :
           (i # j /\ batch[i].name # NoText) => batch[i].name # batch[j].name
    /\ \A i, j \in DOMAIN batch :
           (i # j /\ batch[i].code # NoText) => batch[i].code # batch[j].code

BatchItems == [name : RawProductNames, code : ProductCodes \cup {NoText}]

Batches == UNION {[1..n -> BatchItems] : n \in 0..MaxBatch}

CleanBatch(batch) ==
    [i \in DOMAIN batch |->
        [name |-> sanitize(batch[i].name), code |-> sanitize(batch[i].code)]]

CreateMine(name) ==
    LET clean == sanitize(name)
        row == MineRow(NextRowId(mines), clean, FALSE)
    IN  /\ IF ~validate_mine_data(mines, clean)
           THEN /\ UNCHANGED mines
                /\ mresult' = MResult("create_mine", 0, "validation")
           ELSE IF ~MineTableOK(mines \cup {row})
           THEN /\ UNCHANGED mines
                /\ mresult' = MResult("create_mine", 0, "duplicate")
           ELSE /\ row.id \in MineIds
                /\ mines' = mines \cup {row}
                /\ mresult' = MResult("create_mine", row.id, "ok")
        /\ UNCHANGED <<products, prodVars, raceVars, enrollVars, extVars>>

\* The loop over the batch.  Every create_product that succeeds commits the
\* session, so tbl holds committed rows; created counts them.
RECURSIVE create_batch_operation(_, _, _, _)
create_batch_operation(mine_id, tbl, batch, i) ==
    IF i > Len(batch)
    THEN [outcome |-> "ok", products |-> tbl, created |-> Len(batch)]
    ELSE LET r == create_product(tbl, batch[i].name, mine_id, batch[i].code)
         IN  IF r.outcome # "ok"
             THEN [outcome |-> "error", products |-> tbl, created |-> i - 1]
             ELSE create_batch_operation(mine_id, tbl \cup {r.row}, batch,
                                         i + 1)

\* The mine row is flushed before the loop and is committed by the first
\* commit that follows: the one of the first product created, or the final
\* one.  The rollback after a failure undoes what is not yet committed.
CreateMineWithProducts(name, products_data) ==
    LET clean == sanitize(name)
        batch == CleanBatch(products_data)
        mine == MineRow(NextRowId(mines), clean, FALSE)
        r == create_batch_operation(mine.id, products, batch, 1)
    IN  /\ IF ~validate_mine_data(mines, clean)
              \/ ~validate_products_data(batch)
           THEN /\ UNCHANGED <<mines, products>>
                /\ mresult' = MResult("create_mine_with_products", 0,
                                      "validation")
           ELSE IF ~MineTableOK(mines \cup {mine})
           THEN /\ UNCHANGED <<mines, products>>
                /\ mresult' = MResult("create_mine_with_products", 0,
                                      "error")
           ELSE /\ mine.id \in MineIds
                /\ \A p \in r.products : p.id \in ProductIds
                /\ products' = r.products
                /\ mines' = IF r.outcome = "ok" \/ r.created > 0
                            THEN mines \cup {mine}
                            ELSE mines
                /\ mresult' = MResult("create_mine_with_products",
                                      IF r.outcome = "ok" THEN mine.id ELSE 0,
                                      r.outcome)
        /\ UNCHANGED <<prodVars, raceVars, enrollVars, extVars>>

DeleteMine(id) ==
    /\ IF ~(\E m \in mines : m.id = id)
       THEN /\ UNCHANGED mines
            /\ mresult' = MResult("delete_mine", id, "not_found")
       ELSE LET entity == CHOOSE m \in mines : m.id = id
            IN  /\ mines' = (mines \ {entity})
                                \cup {[entity EXCEPT !.is_deleted = TRUE]}
                /\ mresult' = MResult("delete_mine", id, "ok")
    /\ UNCHANGED <<products, prodVars, raceVars, enrollVars, extVars>>

RestoreMine(id) ==
    /\ IF ~(\E m \in mines : m.id = id)
       THEN /\ UNCHANGED mines
            /\ mresult' = MResult("restore_mine", id, "not_found")
       ELSE LET entity == CHOOSE m \in mines : m.id = id
            IN  /\ mines' = (mines \ {entity})
                                \cup {[entity EXCEPT !.is_deleted = FALSE]}
                /\ mresult' = MResult("restore_mine", id, "ok")
    /\ UNCHANGED <<products, prodVars, raceVars, enrollVars, extVars>>

\* MineFilter; present = FALSE is a call without a filter object
MineFilter(present, include_deleted, only_deleted) ==
    [present |-> present, include_deleted |-> include_deleted,
     only_deleted |-> only_deleted]

NoFilter == MineFilter(FALSE, FALSE, FALSE)

MineFilters ==
    {NoFilter} \cup {MineFilter(TRUE, i, o) : i, o \in BOOLEAN}

base_stmt(tbl, include_deleted) ==
    {m \in tbl : include_deleted \/ ~m.is_deleted}

apply_filter(stmt, flt) ==
    IF ~flt.present THEN stmt
    ELSE {m \in stmt :
             IF flt.only_deleted THEN m.is_deleted
             ELSE flt.include_deleted \/ ~m.is_deleted}

\* SQLAlchemyMineRepository.list, all pages together
MineList(tbl, flt) == apply_filter(base_stmt(tbl, TRUE), flt)

InitMine ==
    /\ ProductionIdle
    /\ RaceIdle
    /\ ExtIdle
    /\ EnrollIdle
    /\ CatalogIdle

NextMine ==
    \/ \E n \in RawMineNames : CreateMine(n)
    \/ \E n \in RawMineNames, b \in Batches : CreateMineWithProducts(n, b)
    \/ \E id \in MineIds : DeleteMine(id)
    \/ \E id \in MineIds : RestoreMine(id)

SpecMine == InitMine /\ [][NextMine]_vars

(***************************************************************************)
(* Claims on the batch creation and the listings (specification SpecMine)  *)
(***************************************************************************)
BatchCommitted(products_data) ==
    /\ mresult'.outcome = "ok"
    /\ Cardinality(mines') = Cardinality(mines) + 1
    /\ Cardinality(products') = Cardinality(products) + Len(products_data)

NothingCommitted ==
    /\ mresult'.outcome # "ok"
    /\ mines' = mines
    /\ products' = products

\* C6: create_mine_with_products is all-or-nothing: a failed request
\* commits neither the mine nor any product of the batch, a successful one
\* commits the mine and all products.
C6_BatchAllOrNothing ==
    [][\A n \in RawMineNames, b \in Batches :
           CreateMineWithProducts(n, b) =>
               (BatchCommitted(b) \/ NothingCommitted)]_vars

\* the listings that do not ask for deleted rows: no filter object, or a
\* filter with include_deleted and only_deleted left False
DefaultListings ==
    {flt \in MineFilters :
        ~flt.present \/ (~flt.include_deleted /\ ~flt.only_deleted)}

DeletedMineHidden ==
    \A m \in mines : m.is_deleted =>
        \A flt \in DefaultListings : m \notin MineList(mines, flt)

SoftDeleteKeepsProducts ==
    \A id \in MineIds : DeleteMine(id) => products' = products

RestoredMineListed ==
    \A id \in MineIds :
        (RestoreMine(id) /\ mresult'.outcome = "ok") =>
            \E m \in mines' :
                /\ m.id = id
                /\ ~m.is_deleted
                /\ \A flt \in DefaultListings : m \in MineList(mines', flt)

\* C7: soft-deleting a mine leaves the products unchanged and hides the
\* mine from every listing that does not ask for deleted rows, with or
\* without a filter object; a restored mine is listed by default again.
C7_SoftDeletedMineHidden ==
    [](DeletedMineHidden)
        /\ [][SoftDeleteKeepsProducts /\ RestoredMineListed]_vars

(***************************************************************************)
(* Claims on the product requests (specification SpecProduct)              *)
(***************************************************************************)
NoDuplicateMineName ==
    \A a, b \in products :
        (a.mine_id = b.mine_id /\ a.name = b.name) => a = b

NameUsedUnderMine(name, mine_id) ==
    \E p \in products : p.mine_id = mine_id /\ p.name = sanitize(name)

NameUsedUnderOtherMine(name, mine_id) ==
    \E p \in products : p.mine_id # mine_id /\ p.name = sanitize(name)

\* the request is not refused for its code
CodeAccepted(code) ==
    /\ validate_code_uniqueness(products, sanitize(code), 0)
    /\ sanitize(code) # NoText =>
           \A p \in products : p.code # sanitize(code)

Refused ==
    /\ mresult'.outcome \in {"validation", "duplicate"}
    /\ products' = products

Added(name, mine_id, code) ==
    /\ mresult'.outcome = "ok"
    /\ products' = products \cup
           {ProductRow(NextRowId(products), mine_id, sanitize(name),
                       sanitize(code), FALSE)}

\* a step that is not a refusal is no create with a name already used under
\* the same mine
DuplicateCreateFails(name, mine_id, code) ==
    (NameUsedUnderMine(name, mine_id) /\ ~Refused)
        => ~CreateProduct(name, mine_id, code)

\* a step that does not add the row is no create with a name used under
\* another mine only
OtherMineCreateSucceeds(name, mine_id, code) ==
    (/\ sanitize(name) # NoText
     /\ NameUsedUnderOtherMine(name, mine_id)
     /\ ~NameUsedUnderMine(name, mine_id)
     /\ CodeAccepted(code)
     /\ ~Added(name, mine_id, code))
        => ~CreateProduct(name, mine_id, code)

CreateRespectsNames ==
    mresult'.op = "create_product" =>
        \A n \in RawProductNames, m \in ExistingMineIds,
           c \in ProductCodes \cup {NoText} :
            /\ DuplicateCreateFails(n, m, c)
            /\ OtherMineCreateSucceeds(n, m, c)

\* C8: no two product rows ever share (mine_id, name); a create with a name
\* already used under the same mine fails, also when the earlier product is
\* soft-deleted, and the same name under another mine succeeds.
C8_UniqueNamePerMine ==
    [](NoDuplicateMineName)
        /\ [][CreateRespectsNames]_vars

\* a create was refused by the table because a soft-deleted product holds
\* the name, while the same name lives under two mines
C8_Witness ==
    /\ mresult = MResult("create_product", 0, "duplicate")
    /\ \A p \in products : p.code = NoText
    /\ \E a, b \in products :
           a.name = b.name /\ a.mine_id # b.mine_id /\ a.is_deleted

OtherProductHasCode(code, exclude_id) ==
    \E p \in products :
        p.code = code /\ p.id # exclude_id /\ ~p.is_deleted

\* C9: the code-uniqueness rule reports a violation exactly when a
\* different product has the same non-empty code; a code is compared with
\* codes only.
C9_CodeRuleComparesCodes ==
    \A c \in ProductCodes, x \in ProductIds \cup {0} :
        validate_code_uniqueness(products, c, x)
            <=> ~OtherProductHasCode(c, x)

(***************************************************************************)
(* models/production.py: table production_partner_enrollment, written      *)
(* through BaseRepository.create / update (specification SpecEnroll).      *)
(* A nullable integer column holds NULL, the empty tuple, or <<v>>.        *)
(***************************************************************************)
MaxEnroll == 2

EnrollIds == 1..MaxEnroll
EnrollProductionIds == {1}
PartnerIds == {1, 2}
NULL == <<>>
IsNull(x) == x = NULL
NullableTonnages == {NULL, <<-1>>, <<1>>}

\* t = <<vessel_size_t, minimum_tonnage, adjusted_tonnage,
\*       manual_incentive_tonnage, calculated_incentive_tonnage>>
EnrollmentRow(id, production_id, partner_id, t) ==
    [id |-> id, production_id |-> production_id, partner_id |-> partner_id,
     vessel_size_t |-> t[1], minimum_tonnage |-> t[2],
     adjusted_tonnage |-> t[3],
     manual_incentive_tonnage |-> t[4],
     calculated_incentive_tonnage |-> t[5]]

check_vessel_size_positive(r) == r.vessel_size_t > 0

check_min_tonnage_nonneg(r) == r.minimum_tonnage >= 0

check_adjusted_tonnage_nonneg(r) ==
    IsNull(r.adjusted_tonnage) \/ r.adjusted_tonnage[1] >= 0

check_manual_incentive_nonneg(r) ==
    IsNull(r.manual_incentive_tonnage) \/ r.manual_incentive_tonnage[1] >= 0

check_incentive_manual_xor_calc_Dropped(r) == TRUE

check_incentive_manual_xor_calc(r) ==
    ~(~IsNull(r.manual_incentive_tonnage)
          /\ ~IsNull(r.calculated_incentive_tonnage))

uq_prod_partner(tbl) ==
    \A a, b \in tbl :
        (a.production_id = b.production_id /\ a.partner_id = b.partner_id)
            => a = b

\* the constraint the database names when it refuses the row r ("" if none)
ViolatedConstraint(tbl, r) ==
    IF ~check_vessel_size_positive(r) THEN "check_vessel_size_positive"
    ELSE IF ~check_min_tonnage_nonneg(r) THEN "check_min_tonnage_nonneg"
    ELSE IF ~check_adjusted_tonnage_nonneg(r)
    THEN "check_adjusted_tonnage_nonneg"
    ELSE IF ~check_manual_incentive_nonneg(r)
    THEN "check_manual_incentive_nonneg"
    ELSE IF ~check_incentive_manual_xor_calc(r)
    THEN "check_incentive_manual_xor_calc"
    ELSE IF ~uq_prod_partner(tbl \cup {r}) THEN "uq_prod_partner"
    ELSE ""

\* ValueError for a unique violation, RuntimeError for any other
translate_db_error(constraint) ==
    IF constraint = "uq_prod_partner" THEN "ValueError" ELSE "RuntimeError"

EResult(op, id, outcome, detail) ==
    [op |-> op, id |-> id, outcome |-> outcome, detail |-> detail]

CreateEnrollment(partner_id, t) ==
    \E production_id \in EnrollProductionIds :
        LET entity == EnrollmentRow(NextRowId(enrollments), production_id,
                                    partner_id, t)
            failed == ViolatedConstraint(enrollments, entity)
        IN  /\ IF failed = ""
               THEN /\ entity.id \in EnrollIds
                    /\ enrollments' = enrollments \cup {entity}
                    /\ eresult' = EResult("create", entity.id, "ok", "")
               ELSE /\ UNCHANGED enrollments
                    /\ eresult' = EResult("create", 0,
                                          translate_db_error(failed), failed)
            /\ UNCHANGED <<prodVars, raceVars, catalogVars, extVars>>

\* the tonnage columns of the rows a request may carry
EnrollmentTonnages ==
    {0, 1} \X {-1, 1} \X NullableTonnages \X NullableTonnages
        \X NullableTonnages

EnrollmentFields ==
    {"adjusted_tonnage", "manual_incentive_tonnage",
     "calculated_incentive_tonnage"}

EnrollmentChanges ==
    UNION {[S -> NullableTonnages] : S \in (SUBSET EnrollmentFields) \ {{}}}

SetAttrs(entity, changes) ==
    [f \in DOMAIN entity |->
        IF f \in DOMAIN changes THEN changes[f] ELSE entity[f]]

UpdateEnrollment(id, changes) ==
    /\ IF ~(\E e \in enrollments : e.id = id)
       THEN /\ UNCHANGED enrollments
            /\ eresult' = EResult("update", id, "not_found", "")
       ELSE LET entity == CHOOSE e \in enrollments : e.id = id
                changed == SetAttrs(entity, changes)
                failed == ViolatedConstraint(enrollments \ {entity}, changed)
            IN  IF failed = ""
                THEN /\ enrollments' = (enrollments \ {entity}) \cup {changed}
                     /\ eresult' = EResult("update", id, "ok", "")
                ELSE /\ UNCHANGED enrollments
                     /\ eresult' = EResult("update", id,
                                           translate_db_error(failed), failed)
    /\ UNCHANGED <<prodVars, raceVars, catalogVars, extVars>>

InitEnroll ==
    /\ ProductionIdle
    /\ RaceIdle
    /\ ExtIdle
    /\ CatalogIdle
    /\ enrollments = {}
    /\ eresult = ENone

NextEnroll ==
    \/ \E p \in PartnerIds, t \in EnrollmentTonnages : CreateEnrollment(p, t)
    \/ \E id \in EnrollIds, ch \in EnrollmentChanges :
           UpdateEnrollment(id, ch)

SpecEnroll == InitEnroll /\ [][NextEnroll]_vars

(***************************************************************************)
(* Claims on the enrollment table (specification SpecEnroll)               *)
(***************************************************************************)
BothIncentivesSet(r) ==
    ~IsNull(r.manual_incentive_tonnage)
        /\ ~IsNull(r.calculated_incentive_tonnage)

NoEnrollmentWithBothIncentives ==
    \A e \in enrollments : ~BothIncentivesSet(e)

Rejected ==
    /\ eresult'.outcome \in {"ValueError", "RuntimeError"}
    /\ enrollments' = enrollments

\* a step that is not a rejection is no insert with both incentives set
InsertWithBothRejected ==
    (eresult'.op = "create" /\ ~Rejected) =>
        \A p \in PartnerIds, t \in EnrollmentTonnages :
            (t[4] # NULL /\ t[5] # NULL) => ~CreateEnrollment(p, t)

\* ... and no update that leaves both incentives set on the row
UpdateToBothRejected ==
    (eresult'.op = "update" /\ ~Rejected) =>
        \A e \in enrollments, ch \in EnrollmentChanges :
            (e.id = eresult'.id /\ BothIncentivesSet(SetAttrs(e, ch)))
                => ~UpdateEnrollment(e.id, ch)

\* C10: an enrollment with both incentive fields set is rejected on insert
\* and on update, the rejection leaves the stored enrollments unchanged, and
\* no stored enrollment ever has both fields non-null.
C10_BothIncentivesRejected ==
    [](NoEnrollmentWithBothIncentives)
        /\ [][InsertWithBothRejected /\ UpdateToBothRejected]_vars

\* an update was refused by the manual-xor-calculated check on a stored row
\* that holds one of the two incentives
C10_Witness ==
    /\ eresult.op = "update"
    /\ eresult.outcome = "RuntimeError"
    /\ eresult.detail = "check_incentive_manual_xor_calc"
    /\ \E e \in enrollments :
           /\ e.id = eresult.id
           /\ ~IsNull(e.manual_incentive_tonnage)

(***************************************************************************)
(* models/production.py: to_dict of an enrollment and of a production.     *)
(* The objects serialised may be transient, so every attribute but         *)
(* minimum_tonnage may be None (NULL).                                     *)
(***************************************************************************)
MaxEnrolled == 2

\* Python's  x or y  on an optional integer: y when x is None or 0
Or(x, y) == IF x = NULL \/ x = <<0>> THEN y ELSE x[1]

\* t = <<minimum_tonnage, adjusted_tonnage, manual_incentive_tonnage,
\*       calculated_incentive_tonnage, calculated_vld_total_tonnage,
\*       vld_tonnage_variance>>
EnrollmentObject(t) ==
    [minimum_tonnage |-> t[1], adjusted_tonnage |-> t[2],
     manual_incentive_tonnage |-> t[3],
     calculated_incentive_tonnage |-> t[4],
     calculated_vld_total_tonnage |-> t[5],
     vld_tonnage_variance |-> t[6]]

\* the property ProductionPartnerEnrollment.incentive_tonnage
incentive_tonnage(self) ==
    IF self.manual_incentive_tonnage # NULL
    THEN self.manual_incentive_tonnage[1]
    ELSE Or(self.calculated_incentive_tonnage, 0)

planned_tonnage_OrAdjusted(self, incentive) ==
    Or(self.adjusted_tonnage, self.minimum_tonnage + incentive)

\* the planned tonnage rule of ProductionPartnerEnrollment.to_dict
planned_tonnage(self, incentive) ==
    IF self.adjusted_tonnage # NULL
    THEN self.adjusted_tonnage[1]
    ELSE self.minimum_tonnage + incentive

variance_OrStored(self, actual_vld_tonnage, planned) ==
    Or(self.vld_tonnage_variance, actual_vld_tonnage - planned)

\* the variance rule of ProductionPartnerEnrollment.to_dict
variance(self, actual_vld_tonnage, planned) ==
    IF self.vld_tonnage_variance # NULL
    THEN self.vld_tonnage_variance[1]
    ELSE actual_vld_tonnage - planned

\* ProductionPartnerEnrollment.to_dict, the tonnage keys
EnrollmentToDict(self) ==
    LET incentive == IF self.manual_incentive_tonnage # NULL
                     THEN self.manual_incentive_tonnage[1]
                     ELSE Or(self.calculated_incentive_tonnage, 0)
        planned == planned_tonnage(self, incentive)
        actual_vld_tonnage == Or(self.calculated_vld_total_tonnage, 0)
    IN  [incentive_tonnage |-> incentive,
         planned_tonnage |-> planned,
         vld_total_tonnage |-> actual_vld_tonnage,
         vld_tonnage_variance |-> variance(self, actual_vld_tonnage, planned),
         share |-> <<>>]

\* the helper planned_tonnage_for of Production.to_dict
planned_tonnage_for(e) ==
    LET incentive == IF e.manual_incentive_tonnage # NULL
                     THEN e.manual_incentive_tonnage[1]
                     ELSE Or(e.calculated_incentive_tonnage, 0)
    IN  IF e.adjusted_tonnage # NULL
        THEN e.adjusted_tonnage[1]
        ELSE e.minimum_tonnage + incentive

\* sum(f(e) for e in enrollments)
RECURSIVE sum(_, _)
sum(values, i) ==
    IF i > Len(values) THEN 0 ELSE values[i] + sum(values, i + 1)

ActualOf(e) == Or(e.calculated_vld_total_tonnage, 0)

VarianceOf(e) ==
    Or(e.vld_tonnage_variance,
       Or(e.calculated_vld_total_tonnage, 0) - planned_tonnage_for(e))

\* a quotient kept exact: numerator over a non-zero denominator
Quotient(num, den) == [num |-> num, den |-> den]

share_Unguarded(planned, total_planned) == Quotient(planned, total_planned)

share(planned, total_planned) ==
    IF total_planned # 0 THEN Quotient(planned, total_planned)
    ELSE Quotient(0, 1)

\* Production.to_dict: enrollment_summary, and enrolled_partners when deep
ProductionToDict(enrollments_, deep) ==
    LET total_planned == sum([k \in 1..Len(enrollments_) |-> planned_tonnage_for(enrollments_[k])], 1)
        total_actual == sum([k \in 1..Len(enrollments_) |-> ActualOf(enrollments_[k])], 1)
        total_variance == sum([k \in 1..Len(enrollments_) |-> VarianceOf(enrollments_[k])], 1)
        expanded ==
            [i \in DOMAIN enrollments_ |->
                LET ed == EnrollmentToDict(enrollments_[i])
                IN  [ed EXCEPT
                        !.share = share(ed.planned_tonnage, total_planned)]]
    IN  [kind |-> "production",
         items |-> IF deep THEN expanded ELSE <<>>,
         summary |-> [partners_count |-> Len(enrollments_),
                      total_planned_tonnage |-> total_planned,
                      total_actual_vld_tonnage |-> total_actual,
                      total_vld_variance |-> total_variance]]

\* the attribute values of the enrollment objects serialised one by one
ObjectTonnages ==
    {1000} \X {NULL, <<0>>, <<1800>>} \X {NULL, <<0>>, <<500>>}
        \X {NULL, <<0>>, <<300>>} \X {NULL, <<0>>, <<2000>>}
        \X {NULL, <<0>>, <<-100>>}

\* ... and of those serialised with their production
SummaryTonnages ==
    {1000} \X {NULL, <<0>>} \X {NULL, <<500>>} \X {NULL, <<-2000>>}
        \X {<<2000>>} \X {NULL, <<0>>, <<-100>>}

SummaryObjects == {EnrollmentObject(t) : t \in SummaryTonnages}

EnrolledLists == UNION {[1..n -> SummaryObjects] : n \in 0..MaxEnrolled}

SerializeEnrollment(i) ==
    /\ i \in DOMAIN enrolled
    /\ report' = [kind |-> "enrollment",
                  items |-> <<EnrollmentToDict(enrolled[i])>>,
                  summary |-> NoSummary]
    /\ UNCHANGED <<enrolled, baseVars, httpVars, cacheVars, partnerVars,
                   libVars>>

SerializeProduction(deep) ==
    /\ report' = ProductionToDict(enrolled, deep)
    /\ UNCHANGED <<enrolled, baseVars, httpVars, cacheVars, partnerVars,
                   libVars>>

IdleButReport ==
    /\ ProductionIdle
    /\ RaceIdle
    /\ CatalogIdle
    /\ EnrollIdle
    /\ HttpIdle
    /\ CacheIdle
    /\ PartnerIdle
    /\ LibIdle
    /\ report = RNone

InitEnrollDict ==
    /\ IdleButReport
    /\ \E t \in ObjectTonnages : enrolled = <<EnrollmentObject(t)>>

NextEnrollDict == SerializeEnrollment(1)

SpecEnrollDict == InitEnrollDict /\ [][NextEnrollDict]_vars

InitProdDict ==
    /\ IdleButReport
    /\ enrolled \in EnrolledLists

NextProdDict ==
    \/ \E deep \in BOOLEAN : SerializeProduction(deep)
    \/ \E i \in 1..MaxEnrolled : SerializeEnrollment(i)

SpecProdDict == InitProdDict /\ [][NextProdDict]_vars

(***************************************************************************)
(* Claims on the serialised tonnages (SpecEnrollDict, SpecProdDict)        *)
(***************************************************************************)
ValueOr(x, default) == IF x = NULL THEN default ELSE x[1]

ExpectedIncentive(e) ==
    IF e.manual_incentive_tonnage # NULL THEN e.manual_incentive_tonnage[1]
    ELSE ValueOr(e.calculated_incentive_tonnage, 0)

ExpectedPlanned(e) ==
    IF e.adjusted_tonnage # NULL THEN e.adjusted_tonnage[1]
    ELSE e.minimum_tonnage + ExpectedIncentive(e)

\* C11: planned_tonnage is adjusted_tonnage when that is set, zero
\* included, and minimum_tonnage + incentive_tonnage otherwise, where the
\* incentive is the manual one if set, else the calculated one if set,
\* else 0.
C11_PlannedTonnageRule ==
    report.kind = "enrollment" =>
        /\ report.items[1].incentive_tonnage = ExpectedIncentive(enrolled[1])
        /\ incentive_tonnage(enrolled[1]) = ExpectedIncentive(enrolled[1])
        /\ report.items[1].planned_tonnage = ExpectedPlanned(enrolled[1])

\* manual 500, minimum 1000, no adjustment: 1500
C11_Witness ==
    /\ report.kind = "enrollment"
    /\ enrolled[1].manual_incentive_tonnage = <<500>>
    /\ enrolled[1].calculated_incentive_tonnage # NULL
    /\ enrolled[1].adjusted_tonnage = NULL
    /\ report.items[1].planned_tonnage = 1500

\* C12: the reported variance is the stored vld_tonnage_variance whenever
\* one is stored, a stored 0 included, and calculated_vld_total_tonnage
\* minus planned_tonnage only when none is stored.
C12_VarianceRule ==
    report.kind = "enrollment" =>
        report.items[1].vld_tonnage_variance =
            IF enrolled[1].vld_tonnage_variance # NULL
            THEN enrolled[1].vld_tonnage_variance[1]
            ELSE ValueOr(enrolled[1].calculated_vld_total_tonnage, 0)
                     - ExpectedPlanned(enrolled[1])

\* a stored 0 is reported although the recomputed variance is not 0
C12_Witness ==
    /\ report.kind = "enrollment"
    /\ enrolled[1].vld_tonnage_variance = <<0>>
    /\ ValueOr(enrolled[1].calculated_vld_total_tonnage, 0)
           # ExpectedPlanned(enrolled[1])
    /\ report.items[1].vld_tonnage_variance = 0

PlannedReported(e) == EnrollmentToDict(e).planned_tonnage
ActualReported(e) == EnrollmentToDict(e).vld_total_tonnage
VarianceReported(e) == EnrollmentToDict(e).vld_tonnage_variance

\* C13: the enrollment_summary totals are the sums of the planned_tonnage,
\* vld_total_tonnage and vld_tonnage_variance that each enrollment's own
\* to_dict reports.
C13_SummaryIsSumOfReported ==
    report.kind = "production" =>
        /\ report.summary.total_planned_tonnage
               = sum([k \in 1..Len(enrolled) |-> PlannedReported(enrolled[k])], 1)
        /\ report.summary.total_actual_vld_tonnage
               = sum([k \in 1..Len(enrolled) |-> ActualReported(enrolled[k])], 1)
        /\ report.summary.total_vld_variance
               = sum([k \in 1..Len(enrolled) |-> VarianceReported(enrolled[k])], 1)

\* C14: with the enrollments expanded, share is planned_tonnage over the
\* total planned tonnage when the total is not 0 and 0 for every
\* enrollment when it is 0; no quotient has a zero denominator.
C14_ShareOfTotal ==
    report.kind = "production" =>
        \A i \in DOMAIN report.items :
            LET total == sum([k \in 1..Len(enrolled) |-> PlannedReported(enrolled[k])], 1)
                ed == report.items[i]
            IN  /\ ed.share.den # 0
                /\ total # 0 =>
                       ed.share = Quotient(PlannedReported(enrolled[i]), total)
                /\ total = 0 => ed.share.num = 0

\* two enrollments whose planned tonnages are not 0 and cancel
C14_Witness ==
    /\ report.kind = "production"
    /\ Len(report.items) = 2
    /\ report.summary.total_planned_tonnage = 0
    /\ report.items[1].planned_tonnage # 0
    /\ report.items[1].share = Quotient(0, 1)

(***************************************************************************)
(* Mine API: the mine routes over MineService over the mine repository,    *)
(* with the columns the validation rules read.  A payload is a function    *)
(* from the keys it carries to values; a value is NULL (None) or <<v>>.    *)
(* Payloads always carry a valid country and port_location, which the      *)
(* rows below leave out.  A row keeps its columns in the same <<v>> form,  *)
(* so that a flush can see a NULL that was set on a NOT NULL column.       *)
(***************************************************************************)
MineStringFields == {"name", "code"}
MineNumberFields ==
    {"port_latitude", "port_longitude", "port_berths", "shiploaders"}
MineFields == MineStringFields \cup MineNumberFields

\* dict.get(key)
Get(data, key) == IF key \in DOMAIN data THEN data[key] ELSE NULL

\* {k: self.sanitize(v) for k, v in data.items()}
clean(data) ==
    [k \in DOMAIN data |->
        IF k \in MineStringFields /\ data[k] # NULL
        THEN <<sanitize(data[k][1])>> ELSE data[k]]

\* BaseService._is_empty
is_empty(data, key) ==
    \/ Get(data, key) = NULL
    \/ key \in MineStringFields /\ Get(data, key) = <<NoText>>

validate_required(data, required) == {f \in required : is_empty(data, f)}

\* validate_constraints: "min_length": 1 on name, "min_value": 0 on the two
\* counters; None is skipped
min_length_ok(data, key) == Get(data, key) # <<NoText>>

min_value_ok_Dropped(data, key) == TRUE

min_value_ok(data, key) ==
    Get(data, key) = NULL \/ Get(data, key)[1] >= 0

validate_constraints(data) ==
    {f \in {"name"} : ~min_length_ok(data, f)}
        \cup {f \in {"port_berths", "shiploaders"} : ~min_value_ok(data, f)}

\* the coordinate rule: a key that is present and not None must lie in range
coordinate_ok(data, key, bound) ==
    \/ key \notin DOMAIN data
    \/ data[key] = NULL
    \/ (-bound <= data[key][1] /\ data[key][1] <= bound)

\* repository exists_by_name / exists_by_code: live rows only
mine_exists_by(tbl, column, value, exclude_id) ==
    \E m \in tbl :
        /\ m[column] = value
        /\ (exclude_id # 0 => m.id # exclude_id)
        /\ ~m.is_deleted

\* _validate_name_uniqueness and _validate_code_uniqueness: a falsy value
\* passes, otherwise no live row may hold it
validate_uniqueness(tbl, data, column, exclude_id) ==
    \/ is_empty(data, column)
    \/ ~mine_exists_by(tbl, column, data[column], exclude_id)

\* MineService._validate_mine_data: the set of rules that reported an error
validate_mine_payload(tbl, data, is_update) ==
    LET exclude_id == IF is_update THEN data.id[1] ELSE 0
    IN  (IF is_update THEN {}
         ELSE validate_required(data,
                  {"name", "port_latitude", "port_longitude"}))
        \cup validate_constraints(data)
        \cup {f \in {"port_latitude"} : ~coordinate_ok(data, f, 90)}
        \cup {f \in {"port_longitude"} : ~coordinate_ok(data, f, 180)}
        \cup {f \in {"name", "code"} :
                 ~validate_uniqueness(tbl, data, f, exclude_id)}

\* Mine(**data): a column takes the payload's value; port_berths and
\* shiploaders left out or None take their default 1 at INSERT
MineEntity(id, data) ==
    [id |-> id,
     name |-> Get(data, "name"),
     code |-> Get(data, "code"),
     port_latitude |-> Get(data, "port_latitude"),
     port_longitude |-> Get(data, "port_longitude"),
     port_berths |-> IF Get(data, "port_berths") = NULL THEN <<1>>
                     ELSE data["port_berths"],
     shiploaders |-> IF Get(data, "shiploaders") = NULL THEN <<1>>
                     ELSE data["shiploaders"],
     is_deleted |-> FALSE]

\* nullable=False columns of Mine
MineNotNull(r) ==
    \A f \in {"name", "port_latitude", "port_longitude", "port_berths",
              "shiploaders"} : r[f] # NULL

\* unique=True on name and on code; soft-deleted rows count, NULL codes do not
MineUnique(others, r) ==
    \A m \in others :
        /\ m.name # r.name
        /\ (r.code # NULL => m.code # r.code)

\* ck_mines_lat_range, ck_mines_lon_range, ck_mines_berths_nonneg
MineChecks(r) ==
    /\ -90 <= r.port_latitude[1] /\ r.port_latitude[1] <= 90
    /\ -180 <= r.port_longitude[1] /\ r.port_longitude[1] <= 180
    /\ r.port_berths[1] >= 0

\* what the database answers to the INSERT or UPDATE of r at flush
IntegrityFailure(others, r) ==
    IF ~MineNotNull(r) THEN "not_null"
    ELSE IF ~MineUnique(others, r) THEN "unique"
    ELSE IF ~MineChecks(r) THEN "check"
    ELSE "none"

Raised(exc, cause, tbl) == [raised |-> exc, cause |-> cause, tbl |-> tbl]

\* SQLAlchemyMineRepository.create, followed by the service's commit or
\* rollback: every IntegrityError becomes DuplicateError
mine_repo_create(tbl, data) ==
    LET r == MineEntity(NextRowId(tbl), data)
        failure == IntegrityFailure(tbl, r)
    IN  IF failure # "none" THEN Raised("DuplicateError", failure, tbl)
        ELSE Raised("none", failure, tbl \cup {r})

\* the setattr loop of update_fields: keys the entity has; id keeps its value
set_fields(entity, data) ==
    [f \in DOMAIN entity |->
        IF f \in DOMAIN data /\ f # "id" THEN data[f] ELSE entity[f]]

\* SQLAlchemyMineRepository.update_fields (get_or_fail sees deleted rows)
mine_repo_update_fields(tbl, id, data) ==
    IF ~(\E m \in tbl : m.id = id)
    THEN Raised("NotFoundError", "none", tbl)
    ELSE LET entity == CHOOSE m \in tbl : m.id = id
             r == set_fields(entity, data)
             failure == IntegrityFailure(tbl \ {entity}, r)
         IN  IF failure # "none" THEN Raised("DuplicateError", failure, tbl)
             ELSE Raised("none", failure, (tbl \ {entity}) \cup {r})

\* SQLAlchemyMineRepository.delete and restore
mine_repo_delete(tbl, id, soft) ==
    IF ~(\E m \in tbl : m.id = id)
    THEN Raised("NotFoundError", "none", tbl)
    ELSE LET entity == CHOOSE m \in tbl : m.id = id
         IN  IF soft
             THEN Raised("none", "none",
                      (tbl \ {entity})
                          \cup {[entity EXCEPT !.is_deleted = TRUE]})
             ELSE Raised("none", "none", tbl \ {entity})

mine_repo_restore(tbl, id) ==
    IF ~(\E m \in tbl : m.id = id)
    THEN Raised("NotFoundError", "none", tbl)
    ELSE LET entity == CHOOSE m \in tbl : m.id = id
         IN  Raised("none", "none",
                 (tbl \ {entity}) \cup {[entity EXCEPT !.is_deleted = FALSE]})

\* SQLAlchemyMineRepository.get: live rows only
mine_repo_get(tbl, id) == {m \in tbl : m.id = id /\ ~m.is_deleted}

\* A message is the sequence of its words in lower case.
\* BaseService.ok and BaseService.error: the envelope
ok(message) ==
    [success |-> TRUE, message |-> message, errors |-> <<>>,
     error_code |-> <<>>]

error(message, errors, error_code) ==
    [success |-> FALSE, message |-> message, errors |-> errors,
     error_code |-> error_code]

validation_error(errors) ==
    error(<<"validation", "error">>, errors, <<"validation", "error">>)

\* safe_repository_operation when op_fn raised exc: the exception's text
\* goes into errors, the message is "Failed to <op_name>"
safe_repository_operation(op_name, exc) ==
    error(<<"failed", "to", op_name>>, <<exc>>, <<op_name, "error">>)

Outcome(tbl, result) == [tbl |-> tbl, result |-> result, raised |-> "none"]

\* the call raised exc past the service, after the tables became tbl
Raises(tbl, exc) ==
    [tbl |-> tbl, result |-> error(<<exc>>, <<exc>>, <<>>), raised |-> exc]

\* the keyword parameters BaseModel.to_dict takes
BaseToDictParameters == {"deep", "include", "exclude"}

\* Mine.to_dict: super().to_dict(include_audit=include_audit)
mine_to_dict ==
    IF "include_audit" \in BaseToDictParameters THEN "none" ELSE "TypeError"

\* return self.ok(message, data=result.to_dict(include_products=True))
ok_with_mine(tbl, message) ==
    IF mine_to_dict # "none" THEN Raises(tbl, mine_to_dict)
    ELSE Outcome(tbl, ok(message))

\* MineService.create_mine
create_mine(tbl, data) ==
    LET clean_data == clean(data)
        validation_errors == validate_mine_payload(tbl, clean_data, FALSE)
        r == mine_repo_create(tbl, clean_data)
    IN  IF validation_errors # {}
        THEN Outcome(tbl, validation_error(validation_errors))
        ELSE IF r.raised = "DuplicateError"
        THEN Outcome(tbl, safe_repository_operation("create",
                              <<"duplicate", "mine", r.cause>>))
        ELSE ok_with_mine(r.tbl, <<"mine", "created", "successfully">>)

\* MineService.get_mine on a service made for the request (its cache is
\* empty, see get_mine_service)
get_mine(tbl, mine_id) ==
    IF mine_repo_get(tbl, mine_id) = {}
    THEN Outcome(tbl, safe_repository_operation("get",
                          <<"mine", "not", "found">>))
    ELSE ok_with_mine(tbl, <<"mine", "retrieved", "successfully">>)

\* MineService.update_mine
update_mine(tbl, mine_id, data) ==
    LET clean_data == ("id" :> <<mine_id>>) @@ clean(data)
        validation_errors == validate_mine_payload(tbl, clean_data, TRUE)
        r == mine_repo_update_fields(tbl, mine_id, clean_data)
    IN  IF validation_errors # {}
        THEN Outcome(tbl, validation_error(validation_errors))
        ELSE IF r.raised = "NotFoundError"
        THEN Outcome(tbl, safe_repository_operation("update",
                              <<"mine", "not", "found", "mine", "not",
                                "found">>))
        ELSE IF r.raised = "DuplicateError"
        THEN Outcome(tbl, safe_repository_operation("update",
                              <<"duplicate", "mine", r.cause>>))
        ELSE ok_with_mine(r.tbl, <<"mine", "updated", "successfully">>)

\* MineService.delete_mine
delete_mine(tbl, mine_id, soft_delete) ==
    LET r == mine_repo_delete(tbl, mine_id, soft_delete)
    IN  IF r.raised = "NotFoundError"
        THEN Outcome(tbl, safe_repository_operation("delete",
                              <<"mine", "not", "found", "mine", "not",
                                "found">>))
        ELSE Outcome(r.tbl,
                 ok(<<"mine",
                      IF soft_delete THEN "soft" ELSE "permanently",
                      "deleted", "successfully">>))

\* MineService.restore_mine
restore_mine(tbl, mine_id) ==
    LET r == mine_repo_restore(tbl, mine_id)
    IN  IF r.raised = "NotFoundError"
        THEN Outcome(tbl, safe_repository_operation("restore",
                              <<"mine", "not", "found", "or", "cannot",
                                "be", "restored", "mine", "not", "found">>))
        ELSE Outcome(r.tbl, ok(<<"mine", "restored", "successfully">>))

\* 'not found' in result.get('message', '').lower()
ContainsNotFound(message) ==
    \E i \in 1..(Len(message) - 1) :
        message[i] = "not" /\ message[i + 1] = "found"

\* the status the get, update, delete and restore routes give an envelope
status_code(result) ==
    IF result.success THEN 200
    ELSE IF ContainsNotFound(result.message) THEN 404 ELSE 400

(***************************************************************************)
(* The application: the before_request guard, the routing of a request to  *)
(* its view function, and the view functions.                              *)
(* A path is the sequence of its pieces, "/" included; an Authorization    *)
(* header is NULL when absent, else <<parts>> with parts what split()      *)
(* gives; a token is a record of what jwt.decode looks at.                 *)
(***************************************************************************)
JWT_SECRET_KEY == "server"
JWT_ALGORITHM == "HS256"

Token(form, secret, alg, exp) ==
    [form |-> form, secret |-> secret, alg |-> alg, exp |-> exp]

\* str.lower on the scheme word
lower(word) ==
    CASE word = "Bearer" -> "bearer"
      [] word = "BEARER" -> "bearer"
      [] word = "Basic" -> "basic"
      [] word = "DESC" -> "desc"
      [] OTHER -> word

\* str.startswith
startswith(path, prefix) ==
    /\ Len(path) >= Len(prefix)
    /\ SubSeq(path, 1, Len(prefix)) = prefix

\* get_bearer_token: NULL or <<token>>
get_bearer_token(auth_header) ==
    IF auth_header = NULL THEN NULL
    ELSE LET parts == auth_header[1]
         IN  IF Len(parts) = 2 /\ lower(parts[1]) = "bearer"
             THEN <<parts[2]>>
             ELSE NULL

\* decode_jwt: TRUE when jwt.decode returns the claims, FALSE when it raises
\* (not a JWT, bad signature, algorithm not allowed, exp not after the clock)
decode_jwt_NoExpiry(token, secret, algorithms, clock) ==
    /\ token.form = "jwt"
    /\ token.secret = secret
    /\ token.alg \in algorithms

decode_jwt(token, secret, algorithms, clock) ==
    /\ token.form = "jwt"
    /\ token.secret = secret
    /\ token.alg \in algorithms
    /\ (token.exp # NULL => token.exp[1] > clock)

\* _jwt_guard: 0 lets the request through, 401 answers it
jwt_guard(req, clock) ==
    IF req.method = "OPTIONS" THEN 0
    ELSE IF ~startswith(req.path, <<"/", "api", "/">>) THEN 0
    ELSE IF startswith(req.path, <<"/", "api", "/", "auth", "/">>) THEN 0
    ELSE IF get_bearer_token(req.authorization) = NULL THEN 401
    ELSE IF ~decode_jwt(get_bearer_token(req.authorization)[1],
                        JWT_SECRET_KEY, {JWT_ALGORITHM}, clock)
    THEN 401
    ELSE 0

\* the URL rules of the three blueprints that are modelled: rule -> the
\* view function of each method
MinesUrl == <<"/", "api", "/", "mines">>
MineUrl == <<"/", "api", "/", "mines", "/", "<int:mine_id>">>
RestoreUrl ==
    <<"/", "api", "/", "mines", "/", "<int:mine_id>", "/", "restore">>
LoginUrl == <<"/", "api", "/", "auth", "/", "login">>

UrlMap ==
    {[rule |-> MinesUrl, method |-> "POST", endpoint |-> "create_mine"],
     [rule |-> MineUrl, method |-> "GET", endpoint |-> "get_mine"],
     [rule |-> MineUrl, method |-> "PUT", endpoint |-> "update_mine"],
     [rule |-> MineUrl, method |-> "DELETE", endpoint |-> "delete_mine"],
     [rule |-> RestoreUrl, method |-> "POST", endpoint |-> "restore_mine"],
     [rule |-> LoginUrl, method |-> "POST", endpoint |-> "login"]}

\* the view function a request is dispatched to; no rule gives the 404
\* handler, a rule without the method the 405 handler, and OPTIONS on a rule
\* is answered by the framework without a view function
dispatch(req) ==
    IF ~(\E u \in UrlMap : u.rule = req.path) THEN "not_found"
    ELSE IF req.method = "OPTIONS" THEN "options"
    ELSE IF ~(\E u \in UrlMap : u.rule = req.path /\ u.method = req.method)
    THEN "method_not_allowed"
    ELSE (CHOOSE u \in UrlMap :
              u.rule = req.path /\ u.method = req.method).endpoint

ViewFunctions == {u.endpoint : u \in UrlMap}

Request(method, path, authorization, mine_id, data, permanent) ==
    [method |-> method, path |-> path, authorization |-> authorization,
     mine_id |-> mine_id, data |-> data, permanent |-> permanent]

NoData == [k \in {} |-> NULL]

Response(status, handler, result) ==
    [status |-> status, handler |-> handler, result |-> result]

\* what a view function does with the tables: the new mines table, the
\* status and the envelope
View(tbl, status, result) == [tbl |-> tbl, status |-> status, result |-> result]

\* jsonify(create_error_response(message, 400)): the pair is serialised as
\* the body and the status stays 200
body_required(tbl) ==
    View(tbl, 200, error(<<"request", "body", "must", "be", "valid",
                           "json">>, <<>>, <<>>))

\* the route's try / except Exception around the service call:
\* jsonify(create_error_response("Failed to ...", 500)) serialises the pair
\* as the body too, and the status stays 200
answer(o, status, op) ==
    IF o.raised # "none"
    THEN View(o.tbl, 200,
              error(<<"failed", "to", op, "mine", o.raised>>, <<>>, <<>>))
    ELSE View(o.tbl, status, o.result)

create_mine_view(tbl, req) ==
    IF DOMAIN req.data = {} THEN body_required(tbl)
    ELSE LET o == create_mine(tbl, req.data)
         IN  answer(o, IF o.result.success THEN 201 ELSE 400, "create")

get_mine_view(tbl, req) ==
    LET o == get_mine(tbl, req.mine_id)
    IN  answer(o, status_code(o.result), "get")

update_mine_view(tbl, req) ==
    IF DOMAIN req.data = {} THEN body_required(tbl)
    ELSE LET o == update_mine(tbl, req.mine_id, req.data)
         IN  answer(o, status_code(o.result), "update")

delete_mine_view(tbl, req) ==
    LET o == delete_mine(tbl, req.mine_id, ~req.permanent)
    IN  answer(o, status_code(o.result), "delete")

restore_mine_view(tbl, req) ==
    LET o == restore_mine(tbl, req.mine_id)
    IN  answer(o, status_code(o.result), "restore")

\* login: the demo credentials give 200, others 401
login_view(tbl, req) ==
    IF Get(req.data, "credentials") = <<"admin">>
    THEN View(tbl, 200, ok(<<"login", "successful">>))
    ELSE View(tbl, 401, error(<<"invalid", "credentials">>, <<>>, <<>>))

run_view(endpoint, tbl, req) ==
    CASE endpoint = "create_mine" -> create_mine_view(tbl, req)
      [] endpoint = "get_mine" -> get_mine_view(tbl, req)
      [] endpoint = "update_mine" -> update_mine_view(tbl, req)
      [] endpoint = "delete_mine" -> delete_mine_view(tbl, req)
      [] endpoint = "restore_mine" -> restore_mine_view(tbl, req)
      [] endpoint = "login" -> login_view(tbl, req)

\* One request through the application.  A hard delete of a mine takes its
\* products with it (Mine.products cascades).
Serve(req) ==
    LET guard == jwt_guard(req, now)
        endpoint == dispatch(req)
    IN  /\ request' = req
        /\ IF guard = 401
           THEN /\ response' = Response(401, "",
                                   error(<<"missing", "or", "invalid",
                                           "token">>, <<>>, <<>>))
                /\ UNCHANGED <<mines, products>>
           ELSE IF endpoint \notin ViewFunctions
           THEN /\ response' =
                       Response(CASE endpoint = "not_found" -> 404
                                  [] endpoint = "options" -> 200
                                  [] OTHER -> 405,
                                "", error(<<endpoint>>, <<>>, <<>>))
                /\ UNCHANGED <<mines, products>>
           ELSE LET v == run_view(endpoint, mines, req)
                IN  /\ response' = Response(v.status, endpoint, v.result)
                    /\ mines' = v.tbl
                    /\ products' =
                           {p \in products :
                               \E m \in v.tbl : m.id = p.mine_id}
                    /\ \A m \in v.tbl : m.id \in MineIds
        /\ UNCHANGED <<mresult, prodVars, raceVars, enrollVars, reportVars,
                       cacheVars, partnerVars, libVars>>

(***************************************************************************)
(* Requests of an authenticated client to the mine API (SpecMineApi)       *)
(***************************************************************************)
GoodToken == Token("jwt", JWT_SECRET_KEY, JWT_ALGORITHM, <<1>>)

Bearer(token) == <<(<<"Bearer", token>>)>>

ValidPort == ("port_latitude" :> <<0>>) @@ ("port_longitude" :> <<0>>)

ApiCreate(data) ==
    Request("POST", MinesUrl, Bearer(GoodToken), 0, data, FALSE)

ApiGet(mine_id) ==
    Request("GET", MineUrl, Bearer(GoodToken), mine_id, NoData, FALSE)

ApiUpdate(mine_id, data) ==
    Request("PUT", MineUrl, Bearer(GoodToken), mine_id, data, FALSE)

ApiDelete(mine_id, permanent) ==
    Request("DELETE", MineUrl, Bearer(GoodToken), mine_id, NoData, permanent)

ApiRestore(mine_id) ==
    Request("POST", RestoreUrl, Bearer(GoodToken), mine_id, NoData, FALSE)

NamePayloads == {("name" :> <<n>>) : n \in RawMineNames}

InitMineApi ==
    /\ ProductionIdle
    /\ RaceIdle
    /\ CatalogIdle
    /\ EnrollIdle
    /\ ExtIdle

NextMineApi ==
    \/ \E d \in NamePayloads : Serve(ApiCreate(d @@ ValidPort))
    \/ \E id \in MineIds : Serve(ApiGet(id))
    \/ \E id \in MineIds, d \in NamePayloads \cup {NoData} :
           Serve(ApiUpdate(id, d))
    \/ \E id \in MineIds, permanent \in BOOLEAN :
           Serve(ApiDelete(id, permanent))
    \/ \E id \in MineIds : Serve(ApiRestore(id))

SpecMineApi == InitMineApi /\ [][NextMineApi]_vars

(***************************************************************************)
(* Claims on the mine API                                                  *)
(***************************************************************************)
ByIdViews == {"get_mine", "update_mine", "delete_mine", "restore_mine"}

IsValidationError(result) ==
    ~result.success /\ result.message = <<"validation", "error">>

\* the request just served named a mine id that had no row, and its payload
\* was not refused by validation
ServedMissingMine ==
    /\ response'.handler \in ByIdViews
    /\ ~(\E m \in mines : m.id = request'.mine_id)
    /\ ~IsValidationError(response'.result)
    /\ ~(response'.handler = "update_mine" /\ DOMAIN request'.data = {})

\* the request just served failed although the row was there
ServedOtherError ==
    /\ response'.handler \in ByIdViews
    /\ ~response'.result.success
    /\ \/ \E m \in mines : m.id = request'.mine_id
       \/ IsValidationError(response'.result)

\* C15: a get, update, delete or restore request for a mine id without a row
\* is answered 404; validation errors and other operation errors are
\* answered 400.
C15_MissingMineIs404 ==
    [][/\ ServedMissingMine => response'.status = 404
       /\ ServedOtherError => response'.status = 400]_vars

(***************************************************************************)
(* Requests of any client, with and without tokens (SpecGuard).  The clock *)
(* moves, so a token can expire between two requests.                      *)
(***************************************************************************)
MaxClock == 2

Tokens ==
    {GoodToken,
     Token("jwt", JWT_SECRET_KEY, JWT_ALGORITHM, NULL),
     Token("jwt", JWT_SECRET_KEY, JWT_ALGORITHM, <<0>>),
     Token("jwt", "other", JWT_ALGORITHM, <<1>>),
     Token("jwt", JWT_SECRET_KEY, "none", <<1>>),
     Token("garbage", JWT_SECRET_KEY, JWT_ALGORITHM, <<1>>)}

AuthorizationHeaders ==
    {NULL, <<(<<>>)>>, <<(<<"Bearer">>)>>,
     <<(<<"bearer", GoodToken>>)>>,
     <<(<<"Basic", GoodToken>>)>>,
     <<(<<"Bearer", GoodToken, "x">>)>>}
        \cup {Bearer(t) : t \in Tokens}

Paths ==
    {MinesUrl, MineUrl, LoginUrl, <<"/", "api">>,
     <<"/", "api", "/", "auth">>, <<"/", "health">>}

Methods == {"GET", "POST", "DELETE", "OPTIONS"}

Tick ==
    /\ now < MaxClock
    /\ now' = now + 1
    /\ UNCHANGED <<cache, cached_result, baseVars, reportVars, httpVars,
                   partnerVars, libVars>>

InitGuard ==
    /\ ProductionIdle
    /\ RaceIdle
    /\ CatalogIdle
    /\ EnrollIdle
    /\ ExtIdle

NextGuard ==
    \/ \E m \in Methods, p \in Paths, a \in AuthorizationHeaders :
           Serve(Request(m, p, a, 1, NoData, TRUE))
    \/ \E a \in AuthorizationHeaders :
           Serve(Request("POST", MinesUrl, a, 0,
                         ("name" :> <<"north">>) @@ ValidPort, FALSE))
    \/ \E a \in AuthorizationHeaders :
           Serve(Request("POST", LoginUrl, a, 0,
                         ("credentials" :> <<"admin">>), FALSE))
    \/ Tick

SpecGuard == InitGuard /\ [][NextGuard]_vars

(***************************************************************************)
(* Claims on the guard                                                     *)
(***************************************************************************)
\* under /api/ and not under /api/auth/
Protected(req) ==
    /\ Len(req.path) >= 3
    /\ req.path[1] = "/" /\ req.path[2] = "api" /\ req.path[3] = "/"
    /\ ~(Len(req.path) >= 5 /\ req.path[4] = "auth" /\ req.path[5] = "/")

\* the header is the word Bearer, in any case, and one token; the token is a
\* JWT signed with the server's key and algorithm and not expired at clock
HasValidBearer(req, clock) ==
    /\ req.authorization # NULL
    /\ Len(req.authorization[1]) = 2
    /\ req.authorization[1][1] \in {"Bearer", "bearer", "BEARER"}
    /\ LET token == req.authorization[1][2]
       IN  /\ token.form = "jwt"
           /\ token.secret = JWT_SECRET_KEY
           /\ token.alg = JWT_ALGORITHM
           /\ (token.exp = NULL \/ token.exp[1] > clock)

\* a step that served a request (the clock stood still)
Served == now' = now

OwnerIds == {1, 2}
OwnedProductIds == {1}

PartnerEntityRow(id) == [id |-> id]

PartnerRow(id, entity_id) == [id |-> id, entity_id |-> entity_id]

\* ForeignKey('productions.id', ondelete='CASCADE') of an enrollment
enrollments_of(enr, production_id) ==
    {e \in enr : e.production_id = production_id}

\* ForeignKey("mines.id", ondelete="CASCADE") of a product
products_of(prds, mine_id) == {p \in prds : p.mine_id = mine_id}

\* ForeignKey('partner_entities.id', ondelete='CASCADE') of a partner
partners_of(parts, entity_id) == {p \in parts : p.entity_id = entity_id}

\* ForeignKey('partners.id', ondelete='RESTRICT') of an enrollment: the
\* enrollments that keep a partner from being deleted
restricting_Dropped(enr, partner_ids) == {}

restricting(enr, partner_ids) == {e \in enr : e.partner_id \in partner_ids}

\* an INSERT passes when the rows its foreign keys name exist
HasRow(tbl, id) == \E r \in tbl : r.id = id

OwnResult(op, id, outcome) == EResult(op, id, outcome, "")

OwnAddProduction ==
    LET row == ProductionRow(NextRowId(productions), 2024,
                             IF productions = {} THEN "base" ELSE "alt",
                             DRAFT)
    IN  /\ row.id \in OwnerIds
        /\ IF ProductionConstraintsOK(productions \cup {row})
           THEN /\ productions' = productions \cup {row}
                /\ eresult' = OwnResult("add_production", row.id, "ok")
           ELSE /\ UNCHANGED productions
                /\ eresult' = OwnResult("add_production", 0, "rejected")
        /\ UNCHANGED <<presult, enrollments, raceVars, catalogVars, extVars>>

OwnAddEnrollment(production_id, partner_id) ==
    LET row == EnrollmentRow(NextRowId(enrollments), production_id,
                             partner_id, <<1, 1, NULL, NULL, NULL>>)
    IN  /\ row.id \in EnrollIds
        /\ IF /\ HasRow(productions, production_id)
              /\ HasRow(partners, partner_id)
              /\ ViolatedConstraint(enrollments, row) = ""
           THEN /\ enrollments' = enrollments \cup {row}
                /\ eresult' = OwnResult("add_enrollment", row.id, "ok")
           ELSE /\ UNCHANGED enrollments
                /\ eresult' = OwnResult("add_enrollment", 0, "rejected")
        /\ UNCHANGED <<prodVars, raceVars, catalogVars, extVars>>

OwnAddMine ==
    LET id == NextRowId(mines)
        row == MineRow(id, IF id = 1 THEN "north" ELSE "south", FALSE)
    IN  /\ row.id \in OwnerIds
        /\ IF MineTableOK(mines \cup {row})
           THEN /\ mines' = mines \cup {row}
                /\ eresult' = OwnResult("add_mine", row.id, "ok")
           ELSE /\ UNCHANGED mines
                /\ eresult' = OwnResult("add_mine", 0, "rejected")
        /\ UNCHANGED <<products, mresult, enrollments, prodVars, raceVars,
                       extVars>>

OwnAddProduct(mine_id) ==
    LET row == ProductRow(NextRowId(products), mine_id, "ore", NoText, FALSE)
    IN  /\ row.id \in OwnedProductIds
        /\ IF HasRow(mines, mine_id) /\ ProductTableOK(products \cup {row})
           THEN /\ products' = products \cup {row}
                /\ eresult' = OwnResult("add_product", row.id, "ok")
           ELSE /\ UNCHANGED products
                /\ eresult' = OwnResult("add_product", 0, "rejected")
        /\ UNCHANGED <<mines, mresult, enrollments, prodVars, raceVars,
                       extVars>>

OwnAddPartnerEntity ==
    LET row == PartnerEntityRow(NextRowId(partner_entities))
    IN  /\ row.id \in OwnerIds
        /\ partner_entities' = partner_entities \cup {row}
        /\ eresult' = OwnResult("add_partner_entity", row.id, "ok")
        /\ UNCHANGED <<partners, enrollments, prodVars, raceVars,
                       catalogVars, reportVars, httpVars, libVars, cacheVars>>

OwnAddPartner(entity_id) ==
    LET row == PartnerRow(NextRowId(partners), entity_id)
    IN  /\ row.id \in PartnerIds
        /\ IF HasRow(partner_entities, entity_id)
           THEN /\ partners' = partners \cup {row}
                /\ eresult' = OwnResult("add_partner", row.id, "ok")
           ELSE /\ UNCHANGED partners
                /\ eresult' = OwnResult("add_partner", 0, "rejected")
        /\ UNCHANGED <<partner_entities, enrollments, prodVars, raceVars,
                       catalogVars, reportVars, httpVars, libVars, cacheVars>>

\* session.delete(production): enrolled_partners cascades
HardDeleteProduction(id) ==
    /\ HasRow(productions, id)
    /\ productions' = {r \in productions : r.id # id}
    /\ enrollments' = enrollments \ enrollments_of(enrollments, id)
    /\ eresult' = OwnResult("delete_production", id, "ok")
    /\ UNCHANGED <<presult, raceVars, catalogVars, extVars>>

\* session.delete(mine): products cascades
HardDeleteMine(id) ==
    /\ HasRow(mines, id)
    /\ mines' = {r \in mines : r.id # id}
    /\ products' = products \ products_of(products, id)
    /\ eresult' = OwnResult("delete_mine", id, "ok")
    /\ UNCHANGED <<mresult, enrollments, prodVars, raceVars, extVars>>

\* session.delete(partner): refused while an enrollment names the partner
HardDeletePartner(id) ==
    /\ HasRow(partners, id)
    /\ IF restricting(enrollments, {id}) # {}
       THEN /\ UNCHANGED partners
            /\ eresult' = OwnResult("delete_partner", id, "rejected")
       ELSE /\ partners' = {r \in partners : r.id # id}
            /\ eresult' = OwnResult("delete_partner", id, "ok")
    /\ UNCHANGED <<partner_entities, enrollments, prodVars, raceVars,
                   catalogVars, reportVars, httpVars, libVars, cacheVars>>

\* session.delete(partner_entity): partners cascades; one refused partner
\* fails the transaction
HardDeletePartnerEntity(id) ==
    LET owned == partners_of(partners, id)
    IN  /\ HasRow(partner_entities, id)
        /\ IF restricting(enrollments, {p.id : p \in owned}) # {}
           THEN /\ UNCHANGED <<partner_entities, partners>>
                /\ eresult' =
                       OwnResult("delete_partner_entity", id, "rejected")
           ELSE /\ partner_entities' = {r \in partner_entities : r.id # id}
                /\ partners' = partners \ owned
                /\ eresult' = OwnResult("delete_partner_entity", id, "ok")
        /\ UNCHANGED <<enrollments, prodVars, raceVars, catalogVars,
                       reportVars, httpVars, libVars, cacheVars>>

\* session.delete of a row that owns nothing
HardDeleteEnrollment(id) ==
    /\ HasRow(enrollments, id)
    /\ enrollments' = {r \in enrollments : r.id # id}
    /\ eresult' = OwnResult("delete_enrollment", id, "ok")
    /\ UNCHANGED <<prodVars, raceVars, catalogVars, extVars>>

HardDeleteProduct(id) ==
    /\ HasRow(products, id)
    /\ products' = {r \in products : r.id # id}
    /\ eresult' = OwnResult("delete_product", id, "ok")
    /\ UNCHANGED <<mines, mresult, enrollments, prodVars, raceVars, extVars>>

InitOwnership ==
    /\ ProductionIdle
    /\ RaceIdle
    /\ CatalogIdle
    /\ EnrollIdle
    /\ ExtIdle

NextOwnership ==
    \/ OwnAddProduction
    \/ \E p \in OwnerIds, q \in PartnerIds : OwnAddEnrollment(p, q)
    \/ OwnAddMine
    \/ \E m \in OwnerIds : OwnAddProduct(m)
    \/ OwnAddPartnerEntity
    \/ \E e \in OwnerIds : OwnAddPartner(e)
    \/ \E id \in OwnerIds : HardDeleteProduction(id)
    \/ \E id \in OwnerIds : HardDeleteMine(id)
    \/ \E id \in PartnerIds : HardDeletePartner(id)
    \/ \E id \in OwnerIds : HardDeletePartnerEntity(id)
    \/ \E id \in EnrollIds : HardDeleteEnrollment(id)
    \/ \E id \in OwnedProductIds : HardDeleteProduct(id)

SpecOwnership == InitOwnership /\ [][NextOwnership]_vars

(***************************************************************************)
(* Claims on ownership                                                     *)
(***************************************************************************)
NoDanglingReference ==
    /\ \A e \in enrollments :
           /\ \E p \in productions : p.id = e.production_id
           /\ \E q \in partners : q.id = e.partner_id
    /\ \A p \in products : \E m \in mines : m.id = p.mine_id
    /\ \A q \in partners : \E n \in partner_entities : n.id = q.entity_id

\* the partner, or a partner of the entity, that the delete just asked for
\* was named by an enrollment
StillReferenced ==
    \/ /\ eresult'.op = "delete_partner"
       /\ \E e \in enrollments : e.partner_id = eresult'.id
    \/ /\ eresult'.op = "delete_partner_entity"
       /\ \E e \in enrollments, q \in partners :
              q.entity_id = eresult'.id /\ e.partner_id = q.id

TablesUnchanged ==
    UNCHANGED <<productions, enrollments, mines, products, partner_entities,
                partners>>

DeleteOf(op) == eresult'.op = op /\ eresult'.outcome = "ok"

OwnedRowsGoWithOwner ==
    /\ DeleteOf("delete_production") =>
           \A e \in enrollments' : e.production_id # eresult'.id
    /\ DeleteOf("delete_mine") =>
           \A p \in products' : p.mine_id # eresult'.id
    /\ DeleteOf("delete_partner_entity") =>
           \A q \in partners' : q.entity_id # eresult'.id

MaxTime == 360

cache_timeout == 300
ListTimeout == 60
MineTimeout == 300

ListKey == <<"mines", ":", "page", ":", "1">>
MineKey == <<"mine", ":", "1", ":", "products", ":", "false">>

\* the calls of _cache_set in MineService: list_mines and get_mine
CacheCalls == {<<ListKey, ListTimeout>>, <<MineKey, MineTimeout>>}

CacheValues == {"a", "b"}

ClockSteps == {30, 60, 240}

Entry(value, ts) == [value |-> value, ts |-> ts]

\* self._cache.pop(key, None)
pop(dict, key) == [k \in DOMAIN dict \ {key} |-> dict[k]]

\* BaseService._cache_get: the age is compared with self._cache_timeout
cache_get(dict, key, clock) ==
    IF key \notin DOMAIN dict THEN [value |-> NULL, dict |-> dict]
    ELSE IF clock - dict[key].ts < cache_timeout
    THEN [value |-> <<dict[key].value>>, dict |-> dict]
    ELSE [value |-> NULL, dict |-> pop(dict, key)]

\* BaseService._cache_set: the entry is (value, now); timeout is not kept
cache_set(dict, key, value, timeout, clock) ==
    [k \in DOMAIN dict \cup {key} |->
        IF k = key THEN Entry(value, clock) ELSE dict[k]]

\* pattern in k
Contains(pattern, k) ==
    \E i \in 0..(Len(k) - Len(pattern)) :
        SubSeq(k, i + 1, i + Len(pattern)) = pattern

\* BaseService.clear_cache; NULL is a call without pattern
clear_cache(dict, pattern) ==
    IF pattern = NULL THEN <<>>
    ELSE [k \in {x \in DOMAIN dict : ~Contains(pattern[1], x)} |-> dict[k]]

CacheGet(key) ==
    LET r == cache_get(cache, key, now)
    IN  /\ cached_result' = [key |-> key, value |-> r.value, at |-> now]
        /\ cache' = r.dict
        /\ UNCHANGED <<now, baseVars, reportVars, httpVars, partnerVars,
                       libVars>>

CacheSet(key, value, timeout) ==
    /\ cache' = cache_set(cache, key, value, timeout, now)
    /\ UNCHANGED <<now, cached_result, baseVars, reportVars, httpVars,
                   partnerVars, libVars>>

ClearCache(pattern) ==
    /\ cache' = clear_cache(cache, pattern)
    /\ UNCHANGED <<now, cached_result, baseVars, reportVars, httpVars,
                   partnerVars, libVars>>

Advance(dt) ==
    /\ now + dt <= MaxTime
    /\ now' = now + dt
    /\ UNCHANGED <<cache, cached_result, baseVars, reportVars, httpVars,
                   partnerVars, libVars>>

InitCache ==
    /\ ProductionIdle
    /\ RaceIdle
    /\ CatalogIdle
    /\ EnrollIdle
    /\ ExtIdle

NextCache ==
    \/ \E c \in CacheCalls : CacheGet(c[1])
    \/ \E c \in CacheCalls, v \in CacheValues : CacheSet(c[1], v, c[2])
    \/ \E p \in {NULL, <<(<<"mine", ":", "1">>)>>} : ClearCache(p)
    \/ \E dt \in ClockSteps : Advance(dt)

SpecCache == InitCache /\ [][NextCache]_vars

(***************************************************************************)
(* Claims on the cache                                                     *)
(***************************************************************************)
\* the timeout the entries under key are stored with
TimeoutOf(key) == (CHOOSE c \in CacheCalls : c[1] = key)[2]

\* this step was a lookup
Looked == cached_result' # cached_result

\* C19: a value stored with timeout t is returned by _cache_get only while
\* its age is below t; from then on the lookup is a miss and evicts the entry.
C19_CacheTimeBoxed ==
    [][Looked =>
          LET key == cached_result'.key
              stored == key \in DOMAIN cache
          IN  /\ cached_result'.value # NULL =>
                     /\ stored
                     /\ now - cache[key].ts < TimeoutOf(key)
              /\ (stored /\ now - cache[key].ts >= TimeoutOf(key)) =>
                     /\ cached_result'.value = NULL
                     /\ key \notin DOMAIN cache']_vars

(***************************************************************************)
(* Writes that the database refuses (specification SpecMineDup): names and *)
(* codes that collide with live and with soft-deleted rows, and None put   *)
(* on a column                                                             *)
(***************************************************************************)
MineCodes == {NULL, <<"n1">>}

DupCreatePayloads ==
    {("name" :> <<n>>) @@ ("code" :> c) @@ ValidPort :
        n \in MineNames, c \in MineCodes}

DupUpdatePayloads ==
    {("name" :> v) : v \in {NULL, <<"north">>, <<"south">>}}
        \cup {("code" :> <<"n1">>)}

InitMineDup ==
    /\ ProductionIdle
    /\ RaceIdle
    /\ CatalogIdle
    /\ EnrollIdle
    /\ ExtIdle

NextMineDup ==
    \/ \E d \in DupCreatePayloads : Serve(ApiCreate(d))
    \/ \E id \in MineIds, d \in DupUpdatePayloads : Serve(ApiUpdate(id, d))
    \/ \E id \in MineIds : Serve(ApiDelete(id, FALSE))

SpecMineDup == InitMineDup /\ [][NextMineDup]_vars

\* the repository raised, and the service passed the exception's text on
RepositoryRaised(result) ==
    /\ ~result.success
    /\ Len(result.message) = 3
    /\ result.message[1] = "failed"

\* the exception was DuplicateError: the service words it "Duplicate mine"
RaisedDuplicateError(result) ==
    /\ RepositoryRaised(result)
    /\ result.errors[1][1] = "duplicate"

\* what the database refused, as the exception's text tells
RefusedFor(result) == result.errors[1][Len(result.errors[1])]

\* C18: create and update_fields raise DuplicateError exactly when the write
\* violates a uniqueness constraint (name or code, soft-deleted rows
\* included); another storage failure is another error; a failed write
\* persists nothing.
C18_DuplicateErrorMeansUniqueness ==
    /\ [](RepositoryRaised(response.result) =>
              (RaisedDuplicateError(response.result)
                   <=> RefusedFor(response.result) = "unique"))
    /\ [][RepositoryRaised(response'.result) => mines' = mines]_vars

(***************************************************************************)
(* Port data in create_mine and update_mine (specification SpecMinePort):  *)
(* coordinates at and beyond their limits, counters at and below zero,     *)
(* None and left-out keys                                                  *)
(***************************************************************************)
\* the port data a create request may carry: one payload within the
\* bounds, at their edge, and one payload per way of leaving them
PortVariants ==
    {("port_latitude" :> <<-90>>) @@ ("port_longitude" :> <<180>>),
     ("port_latitude" :> <<-90>>) @@ ("port_longitude" :> <<180>>)
         @@ ("port_berths" :> <<0>>) @@ ("shiploaders" :> <<0>>),
     ("port_latitude" :> <<91>>) @@ ("port_longitude" :> <<180>>),
     ("port_latitude" :> <<-90>>) @@ ("port_longitude" :> <<-181>>),
     ("port_latitude" :> NULL) @@ ("port_longitude" :> <<180>>),
     ValidPort @@ ("port_berths" :> <<-1>>),
     ValidPort @@ ("shiploaders" :> <<-1>>) @@ ("port_berths" :> NULL)}

PortCreatePayloads == {("name" :> <<"north">>) @@ v : v \in PortVariants}

PortUpdatePayloads ==
    {("port_latitude" :> v) : v \in {<<-91>>, <<90>>, NULL}}
        \cup {("port_longitude" :> v) : v \in {<<181>>, <<-180>>}}
        \cup {("port_berths" :> v) : v \in {<<-1>>, <<0>>}}
        \cup {("shiploaders" :> v) : v \in {<<-1>>, <<0>>, NULL}}

InitMinePort ==
    /\ ProductionIdle
    /\ RaceIdle
    /\ CatalogIdle
    /\ EnrollIdle
    /\ ExtIdle

NextMinePort ==
    \/ \E d \in PortCreatePayloads : Serve(ApiCreate(d))
    \/ \E id \in MineIds, d \in PortUpdatePayloads : Serve(ApiUpdate(id, d))

SpecMinePort == InitMinePort /\ [][NextMinePort]_vars

PortWithinBounds(m) ==
    /\ m.port_latitude # NULL
    /\ -90 <= m.port_latitude[1] /\ m.port_latitude[1] <= 90
    /\ m.port_longitude # NULL
    /\ -180 <= m.port_longitude[1] /\ m.port_longitude[1] <= 180
    /\ m.port_berths # NULL /\ m.port_berths[1] >= 0
    /\ m.shiploaders # NULL /\ m.shiploaders[1] >= 0

\* the payload carries a value outside one of the four bounds
BreaksBound(data) ==
    \/ \E f \in DOMAIN data \cap {"port_latitude"} :
           data[f] # NULL /\ (data[f][1] < -90 \/ data[f][1] > 90)
    \/ \E f \in DOMAIN data \cap {"port_longitude"} :
           data[f] # NULL /\ (data[f][1] < -180 \/ data[f][1] > 180)
    \/ \E f \in DOMAIN data \cap {"port_berths", "shiploaders"} :
           data[f] # NULL /\ data[f][1] < 0

MaxListed == 3
DefaultPerPage == 20

CountryRanks == {1, 2}

ListedRow(id, country, is_deleted) ==
    [id |-> id, country |-> country, is_deleted |-> is_deleted]

\* the tables of the listing: rows 1..n, each of any country, live or deleted
ListedTables ==
    UNION {{{ListedRow(i, c[i], d[i]) : i \in 1..n} :
               c \in [1..n -> CountryRanks], d \in [1..n -> BOOLEAN]} :
           n \in 0..MaxListed}

MineSort(field, direction) == [field |-> field, direction |-> direction]

MineSorts ==
    {MineSort("country", "asc"), MineSort("country", "DESC"),
     MineSort("rank", "desc")}

\* field_map.get(self.field, model.id)
sort_column(m, sort) ==
    IF sort.field = "country" THEN m.country ELSE m.id

\* ORDER BY col ASC | DESC
comes_before(a, b, sort) ==
    IF sort_column(a, sort) = sort_column(b, sort) THEN a.id < b.id
    ELSE IF lower(sort.direction) # "desc"
    THEN sort_column(a, sort) < sort_column(b, sort)
    ELSE sort_column(a, sort) > sort_column(b, sort)

RECURSIVE order_by(_, _)
order_by(stmt, sort) ==
    IF stmt = {} THEN <<>>
    ELSE LET first == CHOOSE a \in stmt :
                          \A b \in stmt \ {a} : comes_before(a, b, sort)
         IN  <<first>> \o order_by(stmt \ {first}, sort)

Page(items, page_no, per_page, total) ==
    [items |-> items, page |-> page_no, per_page |-> per_page,
     total |-> total]

\* Page.pages
pages(pg) ==
    IF pg.per_page <= 0 THEN 1
    ELSE LET n == (pg.total + pg.per_page - 1) \div pg.per_page
         IN  IF n > 1 THEN n ELSE 1

offset_FromPage(page_no, per_page) == page_no * per_page

\* stmt.offset((page - 1) * per_page)
offset(page_no, per_page) == (page_no - 1) * per_page

\* OFFSET o LIMIT l on an ordered result
offset_limit(rows, o, l) ==
    SubSeq(rows, o + 1, IF o + l < Len(rows) THEN o + l ELSE Len(rows))

\* SQLAlchemyMineRepository.list
list(tbl, flt, sort, page_no, per_page) ==
    LET page_ == IF page_no <= 0 THEN 1 ELSE page_no
        per_page_ == IF per_page <= 0 THEN DefaultPerPage ELSE per_page
        filtered == apply_filter(base_stmt(tbl, TRUE), flt)
        total == Cardinality(filtered)
        rows == offset_limit(order_by(filtered, sort),
                             offset(page_, per_page_), per_page_)
    IN  Page(rows, page_, per_page_, total)

ListMines(flt, sort, page_no, per_page) ==
    /\ page' = list(mines, flt, sort, page_no, per_page)
    /\ UNCHANGED <<upsert_result, txVars, perf, catalogVars, prodVars,
                   raceVars, enrollVars, reportVars, httpVars, cacheVars,
                   partnerVars>>

PageNumbers == 0..(MaxListed + 1)
PerPages == {0, 1, 2}
ListFilters ==
    {NoFilter, MineFilter(TRUE, FALSE, FALSE), MineFilter(TRUE, FALSE, TRUE)}

InitList ==
    /\ ProductionIdle
    /\ RaceIdle
    /\ EnrollIdle
    /\ ExtIdle
    /\ mines \in ListedTables
    /\ products = {}
    /\ mresult = MNone

NextList ==
    \E flt \in ListFilters, sort \in MineSorts, p \in PageNumbers,
       pp \in PerPages : ListMines(flt, sort, p, pp)

SpecList == InitList /\ [][NextList]_vars

(***************************************************************************)
(* Claim on the pagination (specification SpecList)                        *)
(***************************************************************************)
\* the rows a listing is about, whatever the page
Matching(tbl, flt) ==
    {m \in tbl :
        IF ~flt.present THEN TRUE
        ELSE IF flt.only_deleted THEN m.is_deleted
        ELSE flt.include_deleted \/ ~m.is_deleted}

\* ceil(total / per_page)
Ceil(total, per_page) ==
    CHOOSE n \in 0..total : n * per_page >= total
                            /\ (n > 0 => (n - 1) * per_page < total)

RECURSIVE PagesTogether(_, _, _, _, _)
PagesTogether(tbl, flt, sort, per_page, upto) ==
    IF upto = 0 THEN <<>>
    ELSE PagesTogether(tbl, flt, sort, per_page, upto - 1)
             \o list(tbl, flt, sort, upto, per_page).items

EveryRowOnce(rows, expected) ==
    /\ Len(rows) = Cardinality(expected)
    /\ {rows[i] : i \in 1..Len(rows)} = expected

InOrder(rows, sort) ==
    \A i, j \in 1..Len(rows) : i < j => comes_before(rows[i], rows[j], sort)

PaginatesAllRows(tbl, flt, sort, per_page) ==
    LET first == list(tbl, flt, sort, 1, per_page)
        all == PagesTogether(tbl, flt, sort, per_page, pages(first))
    IN  /\ EveryRowOnce(all, Matching(tbl, flt))
        /\ InOrder(all, sort)
        /\ list(tbl, flt, sort, pages(first) + 1, per_page).items = <<>>
        /\ \A p \in PageNumbers :
               LET pg == list(tbl, flt, sort, p, per_page)
               IN  /\ pg.total = Cardinality(Matching(tbl, flt))
                   /\ pages(pg) = IF Ceil(pg.total, pg.per_page) > 1
                                  THEN Ceil(pg.total, pg.per_page) ELSE 1
                   /\ p > 0 =>
                          pg.items =
                              SubSeq(all, (p - 1) * pg.per_page + 1,
                                     IF p * pg.per_page < Len(all)
                                     THEN p * pg.per_page ELSE Len(all))
                   /\ p <= 0 => pg = list(tbl, flt, sort, 1, per_page)
                   /\ per_page <= 0 => pg = list(tbl, flt, sort, p, 20)
                   /\ pg.per_page >= 1 /\ pg.page >= 1

MaxSynced == 3

UpsertItem(action, id, has_name, name, has_code, code) ==
    [action |-> action, id |-> id, has_name |-> has_name, name |-> name,
     has_code |-> has_code, code |-> code]

\* (raw.get("_action") or "").lower().strip()
action_of(raw) ==
    IF raw.action \in {"delete", "DELETE "} THEN "delete" ELSE raw.action

\* existing = {p.id: p for p in <products of the mine, deleted ones too>}
existing_ids(tbl, mine_id) == {p.id : p \in {q \in tbl : q.mine_id = mine_id}}

\* code_index.get(code): the product of the mine that had the code when the
\* call started, 0 for None
code_index(tbl, mine_id, code) ==
    IF \E p \in tbl : p.mine_id = mine_id /\ p.code = code
    THEN (CHOOSE p \in tbl : p.mine_id = mine_id /\ p.code = code).id
    ELSE 0

\* the product an item names: by id first, then by code
match_product(tbl, mine_id, raw) ==
    IF raw.id # 0 /\ raw.id \in existing_ids(tbl, mine_id) THEN raw.id
    ELSE IF raw.code # NoText THEN code_index(tbl, mine_id, raw.code)
    ELSE 0

RowOf(tbl, id) == CHOOSE p \in tbl : p.id = id

\* self.soft_delete(product): neither SQLAlchemyProductRepository nor
\* BaseRepository defines soft_delete, the attribute lookup raises
soft_delete(st, id) == [st EXCEPT !.outcome = "AttributeError"]

\* create_for_mine: Product(...), session.add, session.flush
create_for_mine(st, mine_id, raw) ==
    LET obj == ProductRow(NextRowId(st.tbl), mine_id,
                          IF raw.has_name THEN raw.name ELSE NoText,
                          IF raw.has_code THEN raw.code ELSE NoText, FALSE)
    IN  IF ~ProductTableOK(st.tbl \cup {obj})
        THEN [st EXCEPT !.outcome = "IntegrityError"]
        ELSE [st EXCEPT !.tbl = @ \cup {obj},
                        !.created = Append(@, obj.id),
                        !.matched = @ \cup {obj.id}]

\* update_fields: setattr for the keys the item has, session.flush
upsert_update_fields(st, id, raw) ==
    LET product == RowOf(st.tbl, id)
        after == [product EXCEPT
                     !.name = IF raw.has_name THEN raw.name ELSE @,
                     !.code = IF raw.has_code THEN raw.code ELSE @]
        flushed == (st.tbl \ {product}) \cup {after}
    IN  IF ~ProductTableOK(flushed)
        THEN [st EXCEPT !.outcome = "IntegrityError"]
        ELSE IF after = product
        THEN [st EXCEPT !.unchanged = Append(@, id),
                        !.matched = @ \cup {id}]
        ELSE [st EXCEPT !.tbl = flushed,
                        !.updated = Append(@, id),
                        !.matched = @ \cup {id}]

\* one pass of "for raw in items"
upsert_item(st, tbl0, mine_id, raw) ==
    LET id == match_product(tbl0, mine_id, raw)
    IN  IF action_of(raw) = "delete"
        THEN IF id # 0 /\ ~RowOf(st.tbl, id).is_deleted
             THEN soft_delete(st, id)
             ELSE st
        ELSE IF id = 0
        THEN create_for_mine(st, mine_id, raw)
        ELSE upsert_update_fields(st, id, raw)

RECURSIVE upsert_items(_, _, _, _, _)
upsert_items(st, tbl0, mine_id, items, i) ==
    IF i > Len(items) \/ st.outcome # "ok" THEN st
    ELSE upsert_items(upsert_item(st, tbl0, mine_id, items[i]), tbl0,
                      mine_id, items, i + 1)

\* "if delete_missing": soft-delete every live product that was not matched
upsert_delete_missing(st, tbl0, mine_id) ==
    LET missing == {id \in existing_ids(tbl0, mine_id) :
                       id \notin st.matched /\ ~RowOf(st.tbl, id).is_deleted}
    IN  IF missing = {} THEN st
        ELSE soft_delete(st, CHOOSE id \in missing : TRUE)

upsert_many_for_mine(tbl, mine_id, items, delete_missing) ==
    LET st0 == [tbl |-> tbl, outcome |-> "ok", matched |-> {},
                created |-> <<>>, updated |-> <<>>, deleted |-> <<>>,
                unchanged |-> <<>>]
        st1 == upsert_items(st0, tbl, mine_id, items, 1)
    IN  IF st1.outcome = "ok" /\ delete_missing
        THEN upsert_delete_missing(st1, tbl, mine_id)
        ELSE st1

UpsertManyForMine(mine_id, items, delete_missing) ==
    LET r == upsert_many_for_mine(products, mine_id, items, delete_missing)
    IN  /\ \A p \in r.tbl : p.id <= MaxSynced
        /\ products' = r.tbl
        /\ upsert_result' =
               [mine_id |-> mine_id, items |-> items,
                delete_missing |-> delete_missing, outcome |-> r.outcome,
                created |-> r.created, updated |-> r.updated,
                deleted |-> r.deleted, unchanged |-> r.unchanged]
        /\ UNCHANGED <<page, txVars, perf, mines, mresult, prodVars, raceVars,
                       enrollVars, reportVars, httpVars, cacheVars,
                       partnerVars>>

UpsertItems ==
    {UpsertItem("", 0, TRUE, "fines", FALSE, NoText),
     UpsertItem("", 1, TRUE, "ore", FALSE, NoText),
     UpsertItem("", 0, TRUE, "fines", TRUE, "ore"),
     UpsertItem("delete", 1, FALSE, NoText, FALSE, NoText),
     UpsertItem("DELETE ", 0, FALSE, NoText, TRUE, "ore")}

UpsertBatches ==
    {<<>>} \cup {<<a>> : a \in UpsertItems}
           \cup {<<a, b>> : a, b \in UpsertItems}

\* the tables a call may find: a product of mine 1, or none, and a second
\* product of either mine, or none
SyncedTables ==
    {tbl \in {{}} \cup {{a} : a \in {ProductRow(1, 1, "ore", c, d) :
                                         c \in {NoText, "ore"},
                                         d \in BOOLEAN}}
                  \cup {{a, b} :
                           a \in {ProductRow(1, 1, "ore", c, d) :
                                      c \in {NoText, "ore"}, d \in BOOLEAN},
                           b \in {ProductRow(2, m, "fines", NoText, d) :
                                      m \in {1, 2}, d \in BOOLEAN}} :
        ProductTableOK(tbl)}

InitUpsert ==
    /\ ProductionIdle
    /\ RaceIdle
    /\ EnrollIdle
    /\ ExtIdle
    /\ mines = {}
    /\ mresult = MNone
    /\ products \in SyncedTables

NextUpsert ==
    \E items \in UpsertBatches, delete_missing \in BOOLEAN :
        UpsertManyForMine(1, items, delete_missing)

SpecUpsert == InitUpsert /\ [][NextUpsert]_vars

(***************************************************************************)
(* Claim on the synchronisation (specification SpecUpsert)                 *)
(***************************************************************************)
Live(tbl, mine_id) == {p.id : p \in {q \in tbl : q.mine_id = mine_id
                                                  /\ ~q.is_deleted}}

\* the products the non-delete items of the call matched, by id first, then
\* by code, among the products the mine had before the call
MatchedByItems(tbl, call) ==
    {id \in {p.id : p \in tbl} :
        \E i \in 1..Len(call.items) :
            /\ call.items[i].action = ""
            /\ \/ /\ call.items[i].id = id
                  /\ \E p \in tbl : p.id = id /\ p.mine_id = call.mine_id
               \/ /\ ~(\E p \in tbl : p.id = call.items[i].id
                                      /\ p.mine_id = call.mine_id)
                  /\ call.items[i].code # NoText
                  /\ \E p \in tbl : /\ p.id = id
                                    /\ p.mine_id = call.mine_id
                                    /\ p.code = call.items[i].code}

InSeq(x, seq) == \E i \in 1..Len(seq) : seq[i] = x

SyncedExactly ==
    LET call == upsert_result'
        kept == MatchedByItems(products, call)
                    \cup {id \in {p.id : p \in products'} :
                              InSeq(id, call.created)}
    IN  /\ call.outcome = "ok"
        /\ call.delete_missing =>
               /\ Live(products', call.mine_id) = kept
               /\ \A id \in Live(products, call.mine_id) \ kept :
                      InSeq(id, call.deleted)
        /\ ~call.delete_missing =>
               \A p \in products :
                   (p.mine_id = call.mine_id
                        /\ p.id \notin MatchedByItems(products, call)
                        /\ ~(\E i \in 1..Len(call.items) :
                                 call.items[i].action # ""))
                       => p \in products'
        /\ \A p \in products : p.mine_id # call.mine_id => p \in products'
        /\ \A p \in products' : p.mine_id # call.mine_id => p \in products

\* C22: after upsert_many_for_mine(mine, items, delete_missing=True) the
\* live products of the mine are exactly those a non-delete item matched or
\* created, every other product the mine had is soft-deleted and listed in
\* 'deleted', products of other mines are untouched, and with
\* delete_missing=False unmatched products stay as they were.  Calls whose
\* items the table constraints refuse are left aside.
C22_UpsertSynchronises ==
    [][upsert_result'.outcome # "IntegrityError" => SyncedExactly]_vars

(***************************************************************************)
(* lib/repository/decorators.py and mixins.py: transactional, and the unit *)
(* of work of product/routes/product_routes.py.  The session is the set of *)
(* objects added and not yet committed; committing flushes them, and the   *)
(* flush raises IntegrityError when one of them breaks a constraint.  The  *)
(* wrapped function adds objects and then returns or raises.               *)
(***************************************************************************)
GoodObjects == {"a", "b"}
BadObject == "bad"
Exceptions == {"ValueError", "IntegrityError"}
\* BaseException subclasses that "except Exception" does not catch
BaseOnly == {"KeyboardInterrupt"}

Body(adds, ends) == [adds |-> adds, ends |-> ends]

Bodies ==
    {Body(adds, ends) :
        adds \in {{}, {"a"}, {"b"}, {BadObject}, {"a", BadObject}},
        ends \in {"return", "ValueError", "KeyboardInterrupt"}}

\* session.commit()
session_commit(sess, db) ==
    IF BadObject \in sess
    THEN [raised |-> "IntegrityError", session |-> sess, database |-> db]
    ELSE [raised |-> "none", session |-> {}, database |-> db \cup sess]

\* session.rollback()
session_rollback(sess) == {}

Ended(sess, db, commits, rollbacks, committed, raised) ==
    [session |-> sess, database |-> db, commits |-> commits,
     rollbacks |-> rollbacks, committed |-> committed, raised |-> raised]

decorators_transactional_NoRollback(sess, db, fn) ==
    LET s1 == sess \cup fn.adds
        c == session_commit(s1, db)
    IN  IF fn.ends = "return" /\ c.raised = "none"
        THEN Ended(c.session, c.database, 1, 0, TRUE, "none")
        ELSE IF fn.ends = "return"
        THEN Ended(s1, db, 1, 0, FALSE, c.raised)
        ELSE Ended(s1, db, 0, 0, FALSE, fn.ends)

\* decorators.transactional: try: fn, commit; except Exception: rollback
decorators_transactional(sess, db, fn) ==
    LET s1 == sess \cup fn.adds
        c == session_commit(s1, db)
    IN  IF fn.ends = "return" /\ c.raised = "none"
        THEN Ended(c.session, c.database, 1, 0, TRUE, "none")
        ELSE IF fn.ends = "return"
        THEN Ended(session_rollback(s1), db, 1, 1, FALSE, c.raised)
        ELSE IF fn.ends \in Exceptions
        THEN Ended(session_rollback(s1), db, 0, 1, FALSE, fn.ends)
        ELSE Ended(s1, db, 0, 0, FALSE, fn.ends)

\* mixins.transactional(rollback_on_error); has_session is
\* hasattr(self, "session")
mixins_transactional(sess, db, fn, rollback_on_error, has_session) ==
    LET s1 == IF has_session THEN sess \cup fn.adds ELSE sess
        c == session_commit(s1, db)
        rolls == rollback_on_error /\ has_session
        after == IF rolls THEN session_rollback(s1) ELSE s1
        n == IF rolls THEN 1 ELSE 0
    IN  IF fn.ends = "return" /\ ~has_session
        THEN Ended(s1, db, 0, 0, FALSE, "none")
        ELSE IF fn.ends = "return" /\ c.raised = "none"
        THEN Ended(c.session, c.database, 1, 0, TRUE, "none")
        ELSE IF fn.ends = "return"
        THEN Ended(after, db, 1, n, FALSE, c.raised)
        ELSE IF fn.ends \in Exceptions
        THEN Ended(after, db, 0, n, FALSE, fn.ends)
        ELSE Ended(s1, db, 0, 0, FALSE, fn.ends)

\* with SQLAlchemyUnitOfWork(factory): __enter__ opens a new session,
\* __exit__ rolls back if exc else commits, and closes the session
unit_of_work(db, fn) ==
    LET s1 == fn.adds
        c == session_commit(s1, db)
    IN  IF fn.ends = "return" /\ c.raised = "none"
        THEN Ended({}, c.database, 1, 0, TRUE, "none")
        ELSE IF fn.ends = "return"
        THEN Ended({}, db, 1, 0, FALSE, c.raised)
        ELSE Ended({}, db, 0, 1, FALSE, fn.ends)

Txn(wrapper, by_default, fn, r) ==
    [wrapper |-> wrapper, by_default |-> by_default, ends |-> fn.ends,
     commits |-> r.commits, rollbacks |-> r.rollbacks,
     committed |-> r.committed, raised |-> r.raised]

Finish(wrapper, by_default, fn, r) ==
    /\ session' = r.session
    /\ database' = r.database
    /\ txn' = Txn(wrapper, by_default, fn, r)
    /\ UNCHANGED <<page, upsert_result, perf, baseVars, reportVars,
                   httpVars, cacheVars, partnerVars>>

CallDecorated(fn) ==
    Finish("decorators", TRUE, fn,
           decorators_transactional(session, database, fn))

CallMixinDecorated(fn, rollback_on_error, has_session) ==
    Finish("mixins", rollback_on_error /\ has_session, fn,
           mixins_transactional(session, database, fn, rollback_on_error,
                                has_session))

CallInUnitOfWork(fn) ==
    Finish("uow", TRUE, fn, unit_of_work(database, fn))

InitTxn ==
    /\ ProductionIdle
    /\ RaceIdle
    /\ CatalogIdle
    /\ EnrollIdle
    /\ ExtIdle

NextTxn ==
    \/ \E fn \in Bodies : CallDecorated(fn)
    \/ \E fn \in Bodies, r, h \in BOOLEAN : CallMixinDecorated(fn, r, h)
    \/ \E fn \in Bodies : CallInUnitOfWork(fn)

SpecTxn == InitTxn /\ [][NextTxn]_vars

(***************************************************************************)
(* Claims on transactional (specification SpecTxn)                         *)
(***************************************************************************)
\* a call through one of the wrappers, the mixin one with its default
\* rollback_on_error on an object that has a session
Wrapped == txn.wrapper # "none" /\ txn.by_default

\* C23 as stated: a normal return commits exactly once and never rolls
\* back; a raise rolls back without committing and re-raises the exception.
C23_CommitOrRollback ==
    Wrapped =>
        /\ txn.ends = "return" =>
               /\ txn.commits = 1 /\ txn.committed
               /\ txn.rollbacks = 0
        /\ txn.ends # "return" =>
               /\ txn.commits = 0 /\ txn.rollbacks = 1
               /\ txn.raised = txn.ends

ReturnedAndCommitted ==
    /\ txn.commits = 1
    /\ txn.committed => (txn.rollbacks = 0 /\ txn.raised = "none")
    /\ ~txn.committed =>
           /\ txn.raised = "IntegrityError"
           /\ txn.rollbacks = IF txn.wrapper = "uow" THEN 0 ELSE 1
           /\ session = {}

RaisedAndRolledBack ==
    /\ txn.commits = 0 /\ ~txn.committed
    /\ txn.raised = txn.ends
    /\ txn.ends \in Exceptions => (txn.rollbacks = 1 /\ session = {})
    /\ txn.ends \in BaseOnly =>
           txn.rollbacks = IF txn.wrapper = "uow" THEN 1 ELSE 0

\* C23, amended: a normal return is followed by exactly one commit; when the
\* commit succeeds nothing is rolled back, when the commit itself raises the
\* decorators roll the session back and the commit's exception propagates.
\* A function that raises an Exception is rolled back without a commit and
\* the same exception propagates; an exception that is not an Exception
\* (KeyboardInterrupt) propagates through the decorators without rollback.
\* Nothing reaches the database unless the commit succeeded.
C23_CommitOrRollbackAmended ==
    /\ [](Wrapped => /\ txn.ends = "return" => ReturnedAndCommitted
                     /\ txn.ends # "return" => RaisedAndRolledBack)
    /\ [][~txn'.committed => database' = database]_vars

\* the function returned, the commit raised, and the decorator rolled back
C23_Witness ==
    /\ txn.wrapper = "decorators"
    /\ txn.ends = "return"
    /\ txn.commits = 1 /\ ~txn.committed
    /\ txn.rollbacks = 1
    /\ txn.raised = "IntegrityError"
    /\ database # {}

(***************************************************************************)
(* lib/repository/base.py: BaseRepository.create, update and delete with   *)
(* their hooks.  A stored entity is a row with an id and a unique name; a  *)
(* hook is either silent or raises.                                        *)
(***************************************************************************)
MaxStored == 3

StoredNames == {"a", "b", "c"}
StoredIds == 1..MaxStored
HookEvents == {"before", "after"}

Stored(id, name) == [id |-> id, name |-> name]

UqStoredName(tbl) == \A x, y \in tbl : x.name = y.name => x = y

\* _fire(event): the first hook that raises ends the loop
fire(raising, event) == IF event \in raising THEN "HookError" ELSE "none"

\* session.commit(): the flush meets the unique index
repo_commit(tbl) == IF UqStoredName(tbl) THEN "none" ELSE "IntegrityError"

\* _translate_db_error
translate(exc) ==
    IF exc = "IntegrityError" THEN "ValueError" ELSE "RuntimeError"

\* the four ways through try: ... except Exception: rollback; raise
write_through(db, changed, raising) ==
    IF fire(raising, "before") # "none"
    THEN Ended({}, db, 0, 1, FALSE, translate(fire(raising, "before")))
    ELSE IF repo_commit(changed) # "none"
    THEN Ended({}, db, 1, 1, FALSE, translate(repo_commit(changed)))
    ELSE IF fire(raising, "after") # "none"
    THEN Ended({}, changed, 1, 1, TRUE, translate(fire(raising, "after")))
    ELSE Ended({}, changed, 1, 0, TRUE, "none")

repo_create(db, name, raising) ==
    write_through(db, db \cup {Stored(NextRowId(db), name)}, raising)

\* update and delete return early when get_by_id finds nothing
repo_update(db, id, name, raising) ==
    IF ~(\E x \in db : x.id = id) THEN Ended({}, db, 0, 0, FALSE, "none")
    ELSE write_through(db,
                       {IF x.id = id THEN Stored(id, name) ELSE x : x \in db},
                       raising)

repo_delete(db, id, raising) ==
    IF ~(\E x \in db : x.id = id) THEN Ended({}, db, 0, 0, FALSE, "none")
    ELSE write_through(db, {x \in db : x.id # id}, raising)

RepoCall(op, r) ==
    /\ \A x \in r.database : x.id \in StoredIds
    /\ session' = r.session
    /\ database' = r.database
    /\ txn' = [wrapper |-> op, by_default |-> TRUE,
               ends |-> IF r.raised = "none" THEN "return" ELSE r.raised,
               commits |-> r.commits, rollbacks |-> r.rollbacks,
               committed |-> r.committed, raised |-> r.raised]
    /\ UNCHANGED <<page, upsert_result, perf, baseVars, reportVars,
                   httpVars, cacheVars, partnerVars>>

RepoCreate(name, raising) ==
    RepoCall("create", repo_create(database, name, raising))

RepoUpdate(id, name, raising) ==
    RepoCall("update", repo_update(database, id, name, raising))

RepoDelete(id, raising) ==
    RepoCall("delete", repo_delete(database, id, raising))

InitRepo ==
    /\ ProductionIdle
    /\ RaceIdle
    /\ CatalogIdle
    /\ EnrollIdle
    /\ ExtIdle

NextRepo ==
    \/ \E n \in StoredNames, h \in SUBSET HookEvents : RepoCreate(n, h)
    \/ \E i \in StoredIds, n \in StoredNames, h \in SUBSET HookEvents :
           RepoUpdate(i, n, h)
    \/ \E i \in StoredIds, h \in SUBSET HookEvents : RepoDelete(i, h)

SpecRepo == InitRepo /\ [][NextRepo]_vars

(***************************************************************************)
(* Claim on the repository writes (specification SpecRepo)                 *)
(***************************************************************************)
\* C24: whenever BaseRepository.create, update or delete raises, the
\* attempted change is not persisted, whether the failure comes from the
\* storage layer, from a before_* hook or from an after_* hook.
C24_RaisedMeansNotPersisted ==
    [][txn'.raised # "none" => database' = database]_vars

(***************************************************************************)
(* The write operations of MineService and what each call gives back       *)
(* (SpecMineWrites)                                                        *)
(***************************************************************************)
\* what the caller of a service method gets: the success envelope, an
\* error envelope, the raw dict of the batch operation (it has no "success"
\* key), or the exception that left the method
Returned(o) ==
    IF o.raised # "none" THEN o.raised
    ELSE IF o.result.success THEN "success"
    ELSE "error"

\* the dict create_batch_operation returns when the batch is committed
BatchResultKeys == {"mine", "products", "total_products"}

\* `isinstance(result, dict) and not result.get("success")` on that dict
is_failure_envelope(keys) == "success" \notin keys

Written(tbl, prods, returned) ==
    [tbl |-> tbl, products |-> prods, returned |-> returned]

\* MineService.create_mine_with_products.  The mine row is flushed by the
\* repository and committed by the first commit that follows: the one of
\* the first product created, or the final one.
create_mine_with_products(tbl, prods, mine_data, products_data) ==
    LET clean_mine_data == clean(mine_data)
        batch == CleanBatch(products_data)
        validation_errors == validate_mine_payload(tbl, clean_mine_data,
                                                   FALSE)
        r == mine_repo_create(tbl, clean_mine_data)
        mine_id == NextRowId(tbl)
        b == create_batch_operation(mine_id, prods, batch, 1)
    IN  IF validation_errors # {} \/ ~validate_products_data(batch)
        THEN Written(tbl, prods, "error")
        ELSE IF r.raised # "none"
        THEN Written(tbl, prods, "error")
        ELSE IF b.outcome # "ok"
        THEN Written(IF b.created > 0 THEN r.tbl ELSE tbl, b.products,
                     "error")
        ELSE Written(r.tbl, b.products,
                     IF is_failure_envelope(BatchResultKeys) THEN "dict"
                     ELSE "success")

WriteCall(op, id, w) ==
    /\ \A m \in w.tbl : m.id \in MineIds
    /\ \A p \in w.products : p.id \in ProductIds
    /\ mines' = w.tbl
    /\ products' = w.products
    /\ mresult' = MResult(op, id, w.returned)
    /\ UNCHANGED <<prodVars, raceVars, enrollVars, reportVars, httpVars,
                   cacheVars, partnerVars, libVars>>

WriteCreate(data) ==
    LET o == create_mine(mines, data)
    IN  WriteCall("create_mine", 0, Written(o.tbl, products, Returned(o)))

WriteCreateWithProducts(mine_data, products_data) ==
    WriteCall("create_mine_with_products", 0,
              create_mine_with_products(mines, products, mine_data,
                                        products_data))

WriteUpdate(mine_id, data) ==
    LET o == update_mine(mines, mine_id, data)
    IN  WriteCall("update_mine", mine_id,
                  Written(o.tbl, products, Returned(o)))

\* a hard delete takes the products of the mine with it
WriteDelete(mine_id, soft) ==
    LET o == delete_mine(mines, mine_id, soft)
    IN  WriteCall("delete_mine", mine_id,
                  Written(o.tbl,
                          {p \in products :
                              \E m \in o.tbl : m.id = p.mine_id},
                          Returned(o)))

WriteRestore(mine_id) ==
    LET o == restore_mine(mines, mine_id)
    IN  WriteCall("restore_mine", mine_id,
                  Written(o.tbl, products, Returned(o)))

InitMineWrites ==
    /\ ProductionIdle
    /\ RaceIdle
    /\ CatalogIdle
    /\ EnrollIdle
    /\ ExtIdle

NextMineWrites ==
    \/ \E d \in NamePayloads : WriteCreate(d @@ ValidPort)
    \/ \E d \in NamePayloads, batch \in Batches :
           WriteCreateWithProducts(d @@ ValidPort, batch)
    \/ \E id \in MineIds, d \in NamePayloads : WriteUpdate(id, d)
    \/ \E id \in MineIds, soft \in BOOLEAN : WriteDelete(id, soft)
    \/ \E id \in MineIds : WriteRestore(id)

SpecMineWrites == InitMineWrites /\ [][NextMineWrites]_vars

\* C25: a write operation of MineService returns the success envelope if
\* and only if its changes were committed: whenever a call left a change in
\* the committed tables, the caller got an envelope with success = true
\* (and a call that got one left its change there); in particular a
\* committed create_mine_with_products returns the success envelope.
C25_SuccessIffCommitted ==
    [][(mines' # mines \/ products' # products)
           => mresult'.outcome = "success"]_vars

(***************************************************************************)
(* Persisted enrollments serialised with their production (SpecPlanned)    *)
(***************************************************************************)
\* tonnage columns of the rows written: every combination is offered to the
\* table constraints, which decide what is persisted
PlannedTonnages ==
    {1} \X {-1, 0, 1} \X {NULL, <<0>>} \X {NULL, <<1>>} \X {NULL, <<-2>>}

RECURSIVE by_id(_)
by_id(rows) ==
    IF rows = {} THEN <<>>
    ELSE LET first == CHOOSE r \in rows : \A o \in rows : r.id <= o.id
         IN  <<first>> \o by_id(rows \ {first})

\* the relationship Production.enrolled_partners: the loaded enrollment
\* objects of the production (no VLD totals computed yet)
enrolled_partners(tbl, production_id) ==
    LET rows == by_id({e \in tbl : e.production_id = production_id})
    IN  [i \in DOMAIN rows |->
            EnrollmentObject(<<rows[i].minimum_tonnage,
                               rows[i].adjusted_tonnage,
                               rows[i].manual_incentive_tonnage,
                               rows[i].calculated_incentive_tonnage,
                               NULL, NULL>>)]

SerializeStored(production_id, deep) ==
    /\ enrolled' = enrolled_partners(enrollments, production_id)
    /\ report' = ProductionToDict(enrolled', deep)
    /\ UNCHANGED <<baseVars, httpVars, cacheVars, partnerVars, libVars>>

InitPlanned ==
    /\ ProductionIdle
    /\ RaceIdle
    /\ CatalogIdle
    /\ EnrollIdle
    /\ ExtIdle

NextPlanned ==
    \/ \E p \in PartnerIds, t \in PlannedTonnages : CreateEnrollment(p, t)
    \/ \E p \in EnrollProductionIds, deep \in BOOLEAN :
           SerializeStored(p, deep)

SpecPlanned == InitPlanned /\ [][NextPlanned]_vars

BetweenZeroAndOne(q) ==
    \/ q.den > 0 /\ 0 <= q.num /\ q.num <= q.den
    \/ q.den < 0 /\ q.den <= q.num /\ q.num <= 0

\* C26: every persisted enrollment has planned_tonnage >= 0, the total
\* planned tonnage of a serialised production is >= 0, and every share
\* reported lies between 0 and 1, for all rows the table constraints admit.
C26_PlannedNonNegative ==
    /\ \A e \in enrollments : planned_tonnage_for(e) >= 0
    /\ report.kind = "production" =>
           /\ report.summary.total_planned_tonnage >= 0
           /\ \A i \in DOMAIN report.items :
                  BetweenZeroAndOne(report.items[i].share)

(***************************************************************************)
(* One MineService object: its cache, the reads that use it and the writes *)
(* that clear it (SpecMineCache)                                           *)
(***************************************************************************)
str(n) == CASE n = 1 -> "1" [] n = 2 -> "2" [] OTHER -> "3"

bool_str(b) == IF b THEN "true" ELSE "false"

\* f"mine:{mine_id}:products:{include_products}"
MineKeyOf(mine_id) ==
    <<"mine", ":", str(mine_id), ":", "products", ":", "false">>

\* f"mines:page:{page}:...:filter:{hash(...)}:..." for page 1 and a filter
\* that differs in include_deleted only
ListKeyOf(include_deleted) ==
    <<"mines", ":", "page", ":", "1", ":", "filter", ":",
      bool_str(include_deleted)>>

StatsKey == <<"mine_statistics">>

\* f"mine:{mine_id}"
MinePattern(mine_id) == <<(<<"mine", ":", str(mine_id)>>)>>

\* MineFilter is a dataclass with slots=True: its objects have no __dict__
MineFilterSlots == TRUE

filter_dict == IF MineFilterSlots THEN "AttributeError" ELSE "none"

\* what a read gives back and the cache it leaves
Read(dict, returned, data) ==
    [cache |-> dict, returned |-> returned, data |-> data]

\* MineService.get_mine on a service that lives across calls
get_mine_cached(dict, tbl, mine_id, clock) ==
    LET cache_key == MineKeyOf(mine_id)
        c == cache_get(dict, cache_key, clock)
        found == mine_repo_get(tbl, mine_id)
    IN  IF c.value # NULL THEN Read(c.dict, "cache", c.value)
        ELSE IF found = {} THEN Read(c.dict, "error", NULL)
        ELSE IF mine_to_dict # "none" THEN Read(c.dict, mine_to_dict, NULL)
        ELSE LET mine_data == CHOOSE m \in found : TRUE
             IN  Read(cache_set(c.dict, cache_key, mine_data, MineTimeout,
                                clock),
                      "success", <<mine_data>>)

\* MineService.list_mines, page 1 with every row on it
list_mines(dict, tbl, include_deleted, clock) ==
    LET cache_key == ListKeyOf(include_deleted)
        c == cache_get(dict, cache_key, clock)
        items == MineList(tbl, MineFilter(TRUE, include_deleted, FALSE))
    IN  IF filter_dict # "none" THEN Read(dict, filter_dict, NULL)
        ELSE IF c.value # NULL THEN Read(c.dict, "cache", c.value)
        ELSE IF items # {} /\ mine_to_dict # "none"
        THEN Read(c.dict, mine_to_dict, NULL)
        ELSE Read(cache_set(c.dict, cache_key, items, ListTimeout, clock),
                  "success", <<items>>)

StatisticsKeys == {"total_mines", "active_mines", "deleted_mines"}

stats_operation(tbl) ==
    LET total_mines == Cardinality(MineList(tbl, NoFilter))
        deleted_mines ==
            Cardinality(MineList(tbl, MineFilter(TRUE, FALSE, TRUE)))
    IN  [total_mines |-> total_mines,
         active_mines |-> total_mines - deleted_mines,
         deleted_mines |-> deleted_mines]

\* MineService.get_mine_statistics
get_mine_statistics(dict, tbl, clock) ==
    LET c == cache_get(dict, StatsKey, clock)
        result == stats_operation(tbl)
    IN  IF c.value # NULL THEN Read(c.dict, "cache", c.value)
        ELSE IF is_failure_envelope(StatisticsKeys)
        THEN Read(c.dict, "dict", <<result>>)
        ELSE Read(cache_set(c.dict, StatsKey, result, MineTimeout, clock),
                  "success", <<result>>)

ReadCall(key, r) ==
    /\ cache' = r.cache
    /\ cached_result' =
           [key |-> key, value |-> <<[returned |-> r.returned,
                                      data |-> r.data]>>,
            at |-> now]
    /\ UNCHANGED <<now, baseVars, reportVars, httpVars, partnerVars,
                   libVars>>

SvcGetMine(mine_id) ==
    ReadCall(MineKeyOf(mine_id), get_mine_cached(cache, mines, mine_id, now))

SvcListMines(include_deleted) ==
    ReadCall(ListKeyOf(include_deleted),
             list_mines(cache, mines, include_deleted, now))

SvcGetMineStatistics ==
    ReadCall(StatsKey, get_mine_statistics(cache, mines, now))

\* a write of the service: o is what the operation gave, cleared says
\* whether the call reached its clear_cache
SvcWrite(op, mine_id, o, cleared) ==
    /\ \A m \in o.tbl : m.id \in MineIds
    /\ mines' = o.tbl
    /\ mresult' = MResult(op, mine_id, Returned(o))
    /\ cache' = IF cleared THEN clear_cache(cache, MinePattern(mine_id))
                ELSE cache
    /\ cached_result' = NoLookup
    /\ UNCHANGED <<now, products, prodVars, raceVars, enrollVars,
                   reportVars, httpVars, partnerVars, libVars>>

\* the operation did not return an error envelope
Passed(o) == o.raised # "none" \/ o.result.success

SvcCreateMine(data) ==
    SvcWrite("create_mine", 0, create_mine(mines, data), FALSE)

SvcUpdateMine(mine_id, data) ==
    LET o == update_mine(mines, mine_id, data)
    IN  SvcWrite("update_mine", mine_id, o, Passed(o))

SvcDeleteMine(mine_id, soft) ==
    LET o == delete_mine(mines, mine_id, soft)
    IN  SvcWrite("delete_mine", mine_id, o, Passed(o))

SvcRestoreMine(mine_id) ==
    LET o == restore_mine(mines, mine_id)
    IN  SvcWrite("restore_mine", mine_id, o, Passed(o))

InitMineCache ==
    /\ ProductionIdle
    /\ RaceIdle
    /\ CatalogIdle
    /\ EnrollIdle
    /\ ExtIdle

NextMineCache ==
    \/ \E d \in NamePayloads : SvcCreateMine(d @@ ValidPort)
    \/ \E id \in MineIds, d \in NamePayloads : SvcUpdateMine(id, d)
    \/ \E id \in MineIds, soft \in BOOLEAN : SvcDeleteMine(id, soft)
    \/ \E id \in MineIds : SvcRestoreMine(id)
    \/ \E id \in MineIds : SvcGetMine(id)
    \/ \E include_deleted \in BOOLEAN : SvcListMines(include_deleted)
    \/ SvcGetMineStatistics
    \/ Advance(240)

SpecMineCache == InitMineCache /\ [][NextMineCache]_vars

\* what a read of key gives when it is computed from the table
FreshData(key, tbl) ==
    IF key = StatsKey THEN <<stats_operation(tbl)>>
    ELSE IF key[1] = "mines"
    THEN <<MineList(tbl, MineFilter(TRUE, key[9] = "true", FALSE))>>
    ELSE LET found == {m \in tbl : str(m.id) = key[3] /\ ~m.is_deleted}
         IN  IF found = {} THEN NULL ELSE <<CHOOSE m \in found : TRUE>>

\* this step was a read of the service
ServiceRead ==
    /\ cached_result'.key # <<>>
    /\ now' = now
    /\ mresult' = mresult
    /\ mines' = mines

\* C27: within one MineService object, once a write has succeeded, every
\* later get_mine, list_mines and get_mine_statistics returns a result, and
\* the result is the one the table gives now, never one cached before the
\* write.
C27_ReadsReflectWrites ==
    [][(ServiceRead /\ mresult.outcome = "success") =>
          LET read == cached_result'.value[1]
          IN  /\ read.returned \in {"success", "cache", "dict", "error"}
              /\ read.data = FreshData(cached_result'.key, mines)]_vars

(***************************************************************************)
(* The soft-delete columns of a mine: deleted_at and deleted_by, written   *)
(* by update_fields, delete and restore (SpecSoftUpdate, SpecSoftDelete)   *)
(***************************************************************************)
AuditedMine(id, name, deleted_at, deleted_by) ==
    [id |-> id, name |-> name, deleted_at |-> deleted_at,
     deleted_by |-> deleted_by]

\* datetime.utcnow() at the time of the call
utcnow(clock) == <<clock>>

\* uq on mine.name, over live and soft-deleted rows alike
UqAuditedName(tbl) ==
    \A a, b \in tbl : a.name = b.name => a = b

\* SQLAlchemyMineRepository.update_fields: every key the entity has is set
mine_update_fields(tbl, id, data) ==
    IF ~(\E m \in tbl : m.id = id)
    THEN Raised("NotFoundError", "none", tbl)
    ELSE LET entity == CHOOSE m \in tbl : m.id = id
             r == [f \in DOMAIN entity |->
                      IF f \in DOMAIN data THEN data[f] ELSE entity[f]]
         IN  IF r.name = NULL \/ ~UqAuditedName((tbl \ {entity}) \cup {r})
             THEN Raised("DuplicateError", "mine", tbl)
             ELSE Raised("none", "none", (tbl \ {entity}) \cup {r})

mine_restore_KeepsDeletedBy(tbl, id) ==
    IF ~(\E m \in tbl : m.id = id)
    THEN Raised("NotFoundError", "none", tbl)
    ELSE LET entity == CHOOSE m \in tbl : m.id = id
         IN  Raised("none", "none",
                 (tbl \ {entity})
                     \cup {[entity EXCEPT !.deleted_at = NULL]})

\* SQLAlchemyMineRepository.restore
mine_restore(tbl, id) ==
    IF ~(\E m \in tbl : m.id = id)
    THEN Raised("NotFoundError", "none", tbl)
    ELSE LET entity == CHOOSE m \in tbl : m.id = id
         IN  Raised("none", "none",
                 (tbl \ {entity})
                     \cup {[entity EXCEPT !.deleted_at = NULL,
                                          !.deleted_by = NULL]})

\* SQLAlchemyMineRepository.delete
mine_delete(tbl, id, soft, deleted_by, clock) ==
    IF ~(\E m \in tbl : m.id = id)
    THEN Raised("NotFoundError", "none", tbl)
    ELSE LET entity == CHOOSE m \in tbl : m.id = id
         IN  IF soft
             THEN Raised("none", "none",
                      (tbl \ {entity})
                          \cup {[entity EXCEPT
                                    !.deleted_at = utcnow(clock),
                                    !.deleted_by =
                                        IF deleted_by # NULL THEN deleted_by
                                        ELSE entity.deleted_by]})
             ELSE Raised("none", "none", tbl \ {entity})

\* what list_mines shows by default: MineFilter(include_deleted=False)
default_listing(tbl) == {m \in tbl : m.deleted_at = NULL}

\* MineService._validate_name_uniqueness against the live rows
audited_name_free(tbl, data, id) ==
    "name" \notin DOMAIN data
        \/ ~(\E m \in default_listing(tbl) :
                 m.name = data["name"] /\ m.id # id)

SoftCall(op, id, r, prods) ==
    /\ mines' = r.tbl
    /\ products' = prods
    /\ mresult' = MResult(op, id,
                          IF r.raised = "none" THEN "committed"
                          ELSE r.raised)
    /\ UNCHANGED <<prodVars, raceVars, enrollVars, extVars>>

\* MineService.update_mine down to its commit
UpdateAudited(id, data) ==
    IF ~audited_name_free(mines, data, id) \/ Get(data, "name") = <<NoText>>
    THEN SoftCall("update_mine", id,
                  Raised("ValidationError", "none", mines), products)
    ELSE SoftCall("update_mine", id, mine_update_fields(mines, id, data),
                  products)

\* MineService.delete_mine, and the repository's delete with deleted_by; a
\* hard delete takes the products of the mine with it
DeleteAudited(id, soft, deleted_by) ==
    LET r == mine_delete(mines, id, soft, deleted_by, now)
    IN  SoftCall("delete_mine", id, r,
                 {p \in products : \E m \in r.tbl : m.id = p.mine_id})

\* MineService.restore_mine
RestoreAudited(id) ==
    SoftCall("restore_mine", id, mine_restore(mines, id), products)

SoftTick ==
    /\ now = 0
    /\ now' = 240
    /\ UNCHANGED <<cache, cached_result, baseVars, reportVars, httpVars,
                   partnerVars, libVars>>

Users == {"u"}

SoftPayloads ==
    {("name" :> <<n>>) : n \in MineNames \cup {NoText}}
        \cup {("deleted_at" :> v) : v \in {NULL, utcnow(240)}}
        \cup {("deleted_by" :> v) : v \in {NULL, <<"u">>}}
        \cup {("colour" :> <<"red">>)}

\* two live mines and a product of the first
InitSoft ==
    /\ ProductionIdle
    /\ RaceIdle
    /\ EnrollIdle
    /\ ExtIdle
    /\ mines = {AuditedMine(1, <<"north">>, NULL, NULL),
                AuditedMine(2, <<"south">>, NULL, NULL)}
    /\ products = {ProductRow(1, 1, "ore", "ore", FALSE)}
    /\ mresult = MNone

NextSoftUpdate ==
    \/ \E id \in MineIds, d \in SoftPayloads : UpdateAudited(id, d)
    \/ \E id \in MineIds, soft \in BOOLEAN : DeleteAudited(id, soft, NULL)
    \/ \E id \in MineIds : RestoreAudited(id)
    \/ SoftTick

SpecSoftUpdate == InitSoft /\ [][NextSoftUpdate]_vars

SoftState(m) == <<m.id, m.deleted_at, m.deleted_by>>

\* C28: only delete and restore change the soft-delete state of a mine: an
\* update_mine, whatever its payload, leaves deleted_at and deleted_by of
\* every mine as they were, so a soft-deleted mine that is updated stays
\* out of the default listing.
C28_UpdateKeepsSoftDelete ==
    [][mresult'.op = "update_mine" =>
          /\ {SoftState(m) : m \in mines'} = {SoftState(m) : m \in mines}
          /\ {m.id : m \in default_listing(mines')}
                 = {m.id : m \in default_listing(mines)}]_vars

NextSoftDelete ==
    \/ \E id \in MineIds, soft \in BOOLEAN, by \in {NULL, <<"u">>} :
           DeleteAudited(id, soft, by)
    \/ \E id \in MineIds : RestoreAudited(id)
    \/ SoftTick

SpecSoftDelete == InitSoft /\ [][NextSoftDelete]_vars

RowOfMine(tbl, id) == CHOOSE m \in tbl : m.id = id

Deleted(tbl, id) ==
    \E m \in tbl : m.id = id /\ m.deleted_at # NULL

\* the step left the business fields of every mine that is still there,
\* and the products, as they were
BusinessKept ==
    /\ \A m \in mines' : \E o \in mines : o.id = m.id /\ o.name = m.name
    /\ \A p \in products' : p \in products
    /\ \A p \in products :
           (\E m \in mines' : m.id = p.mine_id) => p \in products'

\* C30: soft delete and restore of a mine are idempotent and undo each
\* other: restoring a mine that is not deleted succeeds and changes nothing;
\* soft-deleting a deleted mine leaves it deleted; a restore leaves
\* deleted_at and deleted_by null, and neither a soft delete nor a restore
\* touches a business field or a product of the mine; deleted_by is
\* non-null only while deleted_at is non-null.
C30_DeleteRestoreInverse ==
    [][LET id == mresult'.id
           done == mresult'.outcome = "committed"
       IN  /\ (mresult'.op = "restore_mine" /\ \E m \in mines : m.id = id) =>
                  /\ done
                  /\ ~Deleted(mines, id) => mines' = mines
                  /\ RowOfMine(mines', id).deleted_at = NULL
                  /\ RowOfMine(mines', id).deleted_by = NULL
                  /\ mines' \ {RowOfMine(mines', id)}
                         = mines \ {RowOfMine(mines, id)}
                  /\ BusinessKept
                  /\ products' = products
           /\ (mresult'.op = "delete_mine" /\ Deleted(mines, id)
                   /\ \E m \in mines' : m.id = id) =>
                  Deleted(mines', id)
           /\ (mresult'.op = "delete_mine" /\ \E m \in mines' : m.id = id) =>
                  /\ BusinessKept
                  /\ products' = products
           /\ \A m \in mines' : m.deleted_by # NULL => m.deleted_at # NULL]_vars

\* a mine deleted with a deleted_by and restored after it
C30_Witness ==
    /\ mresult.op = "restore_mine"
    /\ mresult.outcome = "committed"
    /\ now = 240
    /\ \E m \in mines : m.id = 1 /\ m.deleted_at = NULL /\ m.deleted_by = NULL
    /\ \E m \in mines : m.id = 2 /\ m.deleted_at = <<0>>
                        /\ m.deleted_by = <<"u">>
    /\ products # {}

(***************************************************************************)
(* lib/repository/mixins.py: a method wrapped by measure_performance and   *)
(* the metrics its wrapper keeps (SpecPerf)                                *)
(***************************************************************************)
MaxCalls == 4

\* the classes of the objects the method is called on
Classes == {"Repo", "SubRepo"}

\* what the unwrapped method does on a call: return a value or raise
Returns == {"a"}
RaisesException == {"ValueError"}
MethodBodies == Returns \cup RaisesException

\* the default of the decorator's parameter
store_metrics == TRUE

\* f"{self.__class__.__name__}.{func.__name__}"
metrics_key(cls) == <<cls, ".", "method">>

Put(dict, key, value) ==
    [k \in DOMAIN dict \cup {key} |-> IF k = key THEN value ELSE dict[k]]

\* dict.setdefault(key, default), the dict after the call
setdefault(dict, key, default) ==
    IF key \in DOMAIN dict THEN dict ELSE Put(dict, key, default)

\* the except branch: metrics.setdefault(key, {"errors": 0})["errors"] += 1
count_error(metrics, key) ==
    LET m == setdefault(metrics, key, ("errors" :> 0))
    IN  Put(m, key, Put(m[key], "errors", m[key]["errors"] + 1))

Measured(metrics, returned, raised) ==
    [metrics |-> metrics, returned |-> returned, raised |-> raised]

\* the bookkeeping after a call that returned: data["calls"] += 1 on the
\* dict setdefault gave; a dict without "calls" raises KeyError
count_call(metrics, key) ==
    LET m == setdefault(metrics, key, ("calls" :> 0) @@ ("errors" :> 0))
        data == m[key]
    IN  IF "calls" \notin DOMAIN data THEN Measured(m, "none", "KeyError")
        ELSE Measured(Put(m, key, Put(data, "calls", data["calls"] + 1)),
                      "none", "none")

\* measure_performance.decorator.wrapper: body is what func does
wrapper(metrics, cls, body) ==
    LET key == metrics_key(cls)
        counted == count_call(metrics, key)
    IN  IF body \in Returns
        THEN IF ~store_metrics THEN Measured(metrics, body, "none")
             ELSE IF counted.raised # "none"
             THEN Measured(count_error(counted.metrics, key), "none",
                           counted.raised)
             ELSE Measured(counted.metrics, body, "none")
        ELSE Measured(IF store_metrics THEN count_error(metrics, key)
                      ELSE metrics,
                      "none", body)

Bump(counts, key) ==
    Put(counts, key, IF key \in DOMAIN counts THEN counts[key] + 1 ELSE 1)

CallMeasured(cls, body) ==
    LET r == wrapper(perf.metrics, cls, body)
        key == metrics_key(cls)
    IN  /\ perf.n < MaxCalls
        /\ perf' = [metrics |-> r.metrics,
                    succeeded |-> IF body \in Returns
                                  THEN Bump(perf.succeeded, key)
                                  ELSE perf.succeeded,
                    failed |-> IF body \in Returns THEN perf.failed
                               ELSE Bump(perf.failed, key),
                    body |-> body, returned |-> r.returned,
                    raised |-> r.raised, n |-> perf.n + 1]
        /\ UNCHANGED <<page, upsert_result, txVars, baseVars, reportVars,
                       httpVars, cacheVars, partnerVars>>

\* wrapper.clear_metrics()
ClearMetrics ==
    /\ perf.metrics # <<>>
    /\ perf' = [NoPerf EXCEPT !.n = perf.n]
    /\ UNCHANGED <<page, upsert_result, txVars, baseVars, reportVars,
                   httpVars, cacheVars, partnerVars>>

InitPerf ==
    /\ ProductionIdle
    /\ RaceIdle
    /\ CatalogIdle
    /\ EnrollIdle
    /\ ExtIdle

NextPerf ==
    \/ \E cls \in Classes, body \in MethodBodies : CallMeasured(cls, body)
    \/ ClearMetrics

SpecPerf == InitPerf /\ [][NextPerf]_vars

Count(counts, key) == IF key \in DOMAIN counts THEN counts[key] ELSE 0

Metric(metrics, key, field) ==
    IF key \in DOMAIN metrics /\ field \in DOMAIN metrics[key]
    THEN metrics[key][field] ELSE 0

\* C29: measure_performance is transparent: every call of the wrapped
\* method returns what the method returned or raises what it raised, also
\* a successful call after a failed one, and after the call the metrics
\* hold calls = number of successful calls and errors = number of failed
\* calls of each key.
C29_MeasureTransparent ==
    /\ perf.body \in Returns =>
           perf.returned = perf.body /\ perf.raised = "none"
    /\ perf.body \in RaisesException =>
           perf.raised = perf.body /\ perf.returned = "none"
    /\ \A cls \in Classes :
           LET key == metrics_key(cls)
           IN  /\ Metric(perf.metrics, key, "calls")
                      = Count(perf.succeeded, key)
               /\ Metric(perf.metrics, key, "errors")
                      = Count(perf.failed, key)

====
